---- MODULE Spec2Model ----
(***************************************************************************)
(* A model of the rust2 implementation of mal (step 4: if, fn*, do):       *)
(* the data model (types.rs), the environment chain (env.rs), the reader   *)
(* (reader.rs), the printer (printer.rs) and the evaluator                 *)
(* (step4_if_fn_do.rs).                                                    *)
(*                                                                         *)
(* Text (source text, symbol and keyword names, string contents, printed   *)
(* output) is a sequence of one-character strings, so that the tokenizer   *)
(* and the printer work on characters as the code does.                    *)
(* An Rc<RefCell<Env>> is an index into store, the arena of all scopes   *)
(* created so far; index 0 stands for outer = None.                        *)
(***************************************************************************)
EXTENDS Integers, Sequences, FiniteSets, TLC

VARIABLES
    store,     \* the scopes: store[i] = [data |-> name -> value, outer |-> index or 0]
    last,      \* the last operation: its inputs, its result and its trace
    steps,     \* number of operations performed so far
    running,   \* FALSE once the process was aborted by a panic
    build      \* "debug" (overflow checks on) or "release" (wrapping arithmetic)

vars == <<store, last, steps, running, build>>

\* ------------------------------------------------------------------ bounds

MaxSteps == 3
MaxDepth == 12
MaxScopes == 3

\* -------------------------------------------------------------- data model

MalNil == <<"Nil", 0>>
MalBool(b) == <<"Bool", b>>
MalNumber(n) == <<"Number", n>>
MalSymbol(s) == <<"Symbol", s>>
MalString(s) == <<"String", s>>
MalKeyword(s) == <<"Keyword", s>>
MalList(items) == <<"List", items>>
MalVector(items) == <<"Vector", items>>
MalMap(pairs) == <<"Map", pairs>>
MalFunction(params, body, env) ==
    <<"Function", [params |-> params, body |-> body, env |-> env, is_macro |-> FALSE]>>

Tag(v) == v[1]
Payload(v) == v[2]

\* Option<MalType>::None, the result of a failed lookup.
NoneV == <<"None", 0>>

\* An Err(String): the format string and the value formatted into it.
ErrV(msg, arg) == <<"Err", [msg |-> msg, arg |-> arg]>>

\* ------------------------------------------------------------- environment

EmptyData == [n \in {} |-> MalNil]

\* Env::new
EnvNew(outer) == [data |-> EmptyData, outer |-> outer]

\* HashMap::insert on the scope's own data.
Insert(data, key, val) ==
    [n \in (DOMAIN data) \cup {key} |-> IF n = key THEN val ELSE data[n]]

RECURSIVE EnvSetWhereBound(_, _, _, _)
\* A variant of EnvSet that overwrites the nearest existing binding of the chain.
EnvSetWhereBound(st, env, key, val) ==
    IF key \in DOMAIN st[env].data \/ st[env].outer = 0
    THEN [st EXCEPT ![env].data = Insert(@, key, val)]
    ELSE EnvSetWhereBound(st, st[env].outer, key, val)

\* Env::set: the store after env.borrow_mut().set(key, val).
EnvSet(st, env, key, val) ==
    [st EXCEPT ![env].data = Insert(@, key, val)]

\* A variant of EnvGet that looks in every scope, nearest first, then any other.
EnvGetAnyScope(st, env, key) ==
    LET own == {i \in 1..Len(st) : key \in DOMAIN st[i].data}
    IN IF key \in DOMAIN st[env].data THEN st[env].data[key]
       ELSE IF own = {} THEN NoneV
       ELSE st[CHOOSE i \in own : \A j \in own : i <= j].data[key]

RECURSIVE EnvGet(_, _, _)
\* Env::get
EnvGet(st, env, key) ==
    IF key \in DOMAIN st[env].data
    THEN st[env].data[key]
    ELSE IF st[env].outer # 0
         THEN EnvGet(st, st[env].outer, key)
         ELSE NoneV

\* env_new!: a new scope is appended to the arena and its index returned.
NewEnvId(st) == Len(st) + 1

\* A variant of EnvAlloc whose new scope has no outer scope.
EnvAllocDetached(st, outer) == Append(st, EnvNew(0))

\* env_new!(Some(outer))
EnvAlloc(st, outer) == Append(st, EnvNew(outer))

\* ----------------------------------------------------------------- numbers

\* Width of a Number in the model. The code's Number is an i64; the model
\* keeps two's-complement arithmetic at a width the model checker's integers hold.
NumBits == 8
Modulus == 2 ^ NumBits
IntMin == -(2 ^ (NumBits - 1))
IntMax == 2 ^ (NumBits - 1) - 1
InRange(n) == IntMin <= n /\ n <= IntMax
Wrap(n) == ((n - IntMin) % Modulus) + IntMin

Abs(n) == IF n < 0 THEN -n ELSE n
\* Rust's integer /: the quotient truncated toward zero.
TruncDiv(a, b) ==
    IF (a < 0) = (b < 0) THEN Abs(a) \div Abs(b) ELSE -(Abs(a) \div Abs(b))

\* ----------------------------------------------------------------- printer

DigitChars == <<"0", "1", "2", "3", "4", "5", "6", "7", "8", "9">>

RECURSIVE NatToChars(_)
NatToChars(n) ==
    IF n < 10 THEN <<DigitChars[n + 1]>>
    ELSE NatToChars(n \div 10) \o <<DigitChars[(n % 10) + 1]>>

\* i64::to_string
IntToChars(n) == IF n < 0 THEN <<"-">> \o NatToChars(-n) ELSE NatToChars(n)

RECURSIVE EscapeCharsKeepBackslash(_)
\* An escaping that leaves a backslash of the content as it is.
EscapeCharsKeepBackslash(s) ==
    IF s = <<>> THEN <<>>
    ELSE LET c == Head(s)
             e == IF c = "\n" THEN <<"\\", "n">>
                  ELSE IF c = "\"" THEN <<"\\", "\"">>
                  ELSE <<c>>
         IN e \o EscapeCharsKeepBackslash(Tail(s))

RECURSIVE EscapeChars(_)
\* s.replace('\\', "\\\\").replace('\n', "\\n").replace('"', "\\\"")
EscapeChars(s) ==
    IF s = <<>> THEN <<>>
    ELSE LET c == Head(s)
             e == IF c = "\\" THEN <<"\\", "\\">>
                  ELSE IF c = "\n" THEN <<"\\", "n">>
                  ELSE IF c = "\"" THEN <<"\\", "\"">>
                  ELSE <<c>>
         IN e \o EscapeChars(Tail(s))

RECURSIVE JoinChars(_, _)
\* Vec<String>::join(sep)
JoinChars(parts, sep) ==
    IF parts = <<>> THEN <<>>
    ELSE IF Len(parts) = 1 THEN parts[1]
    ELSE parts[1] \o sep \o JoinChars(Tail(parts), sep)

RECURSIVE pr_str(_, _)
\* printer::pr_str
pr_str(exp, print_readably) ==
    CASE Tag(exp) = "Nil" -> <<"n", "i", "l">>
      [] Tag(exp) = "Bool" ->
            IF Payload(exp) THEN <<"t", "r", "u", "e">> ELSE <<"f", "a", "l", "s", "e">>
      [] Tag(exp) = "Number" -> IntToChars(Payload(exp))
      [] Tag(exp) = "Symbol" -> Payload(exp)
      [] Tag(exp) = "String" ->
            IF print_readably
            THEN <<"\"">> \o EscapeChars(Payload(exp)) \o <<"\"">>
            ELSE Payload(exp)
      [] Tag(exp) = "Keyword" -> <<":">> \o Payload(exp)
      [] Tag(exp) = "List" ->
            <<"(">> \o JoinChars([i \in 1..Len(Payload(exp)) |->
                                    pr_str(Payload(exp)[i], print_readably)], <<" ">>)
                   \o <<")">>
      [] Tag(exp) = "Vector" ->
            <<"[">> \o JoinChars([i \in 1..Len(Payload(exp)) |->
                                    pr_str(Payload(exp)[i], print_readably)], <<" ">>)
                   \o <<"]">>
      [] Tag(exp) = "Map" ->
            <<"{">> \o JoinChars([i \in 1..Len(Payload(exp)) |->
                                    pr_str(Payload(exp)[i][1], print_readably) \o <<" ">>
                                    \o pr_str(Payload(exp)[i][2], print_readably)], <<" ">>)
                   \o <<"}">>
      [] Tag(exp) = "Function" ->
            <<"#", "<", "f", "u", "n", "c", "t", "i", "o", "n", ">">>

\* ---------------------------------------------------------------- equality

RECURSIVE MalEq(_, _)
\* An equality under which a Function equals itself.
MalEqFnIdentity(a, b) ==
    LET SeqEq(x, y) ==
            /\ Len(x) = Len(y)
            /\ \A i \in 1..Len(x) : MalEq(x[i], y[i])
        IsSeq(v) == Tag(v) \in {"List", "Vector"}
    IN  CASE Tag(a) = "Nil" /\ Tag(b) = "Nil" -> TRUE
          [] Tag(a) \in {"Bool", "Number", "Symbol", "String", "Keyword"}
             /\ Tag(b) = Tag(a) -> Payload(a) = Payload(b)
          [] IsSeq(a) /\ IsSeq(b) -> SeqEq(Payload(a), Payload(b))
          [] Tag(a) = "Map" /\ Tag(b) = "Map" ->
                /\ Len(Payload(a)) = Len(Payload(b))
                /\ \A i \in 1..Len(Payload(a)) :
                      /\ MalEq(Payload(a)[i][1], Payload(b)[i][1])
                      /\ MalEq(Payload(a)[i][2], Payload(b)[i][2])
          [] Tag(a) = "Function" /\ Tag(b) = "Function" -> a = b
          [] OTHER -> FALSE

\* impl PartialEq for MalType
MalEq(a, b) ==
    LET SeqEq(x, y) ==
            /\ Len(x) = Len(y)
            /\ \A i \in 1..Len(x) : MalEq(x[i], y[i])
        IsSeq(v) == Tag(v) \in {"List", "Vector"}
    IN  CASE Tag(a) = "Nil" /\ Tag(b) = "Nil" -> TRUE
          [] Tag(a) \in {"Bool", "Number", "Symbol", "String", "Keyword"}
             /\ Tag(b) = Tag(a) -> Payload(a) = Payload(b)
          [] IsSeq(a) /\ IsSeq(b) -> SeqEq(Payload(a), Payload(b))
          [] Tag(a) = "Map" /\ Tag(b) = "Map" ->
                /\ Len(Payload(a)) = Len(Payload(b))
                /\ \A i \in 1..Len(Payload(a)) :
                      /\ MalEq(Payload(a)[i][1], Payload(b)[i][1])
                      /\ MalEq(Payload(a)[i][2], Payload(b)[i][2])
          [] Tag(a) = "Function" /\ Tag(b) = "Function" -> FALSE
          [] OTHER -> FALSE

\* ------------------------------------------------------------------- names

N_def == <<"d", "e", "f", "!">>
N_let == <<"l", "e", "t", "*">>
N_do == <<"d", "o">>
N_if == <<"i", "f">>
N_fn == <<"f", "n", "*">>
N_amp == <<"&">>
N_debug == <<"D", "E", "B", "U", "G", "-", "E", "V", "A", "L">>
N_nil == <<"n", "i", "l">>
N_true == <<"t", "r", "u", "e">>
N_false == <<"f", "a", "l", "s", "e">>
N_list == <<"l", "i", "s", "t">>
N_listp == <<"l", "i", "s", "t", "?">>
N_emptyp == <<"e", "m", "p", "t", "y", "?">>
N_count == <<"c", "o", "u", "n", "t">>
N_prstr == <<"p", "r", "-", "s", "t", "r">>
N_str == <<"s", "t", "r">>
N_prn == <<"p", "r", "n">>
N_println == <<"p", "r", "i", "n", "t", "l", "n">>
N_not == <<"n", "o", "t">>

\* The names create_default_env binds to a Symbol of the same name.
BuiltinNames ==
    { <<"+">>, <<"-">>, <<"*">>, <<"/">>, <<"=">>, <<">">>, <<">", "=">>, <<"<">>,
      <<"<", "=">>, N_list, N_listp, N_emptyp, N_count, N_prstr, N_str, N_prn,
      N_println, N_not }

\* create_default_env: the own bindings of the root scope.
DefaultData ==
    [n \in BuiltinNames \cup {N_nil, N_true, N_false} |->
        IF n = N_nil THEN MalNil
        ELSE IF n = N_true THEN MalBool(TRUE)
        ELSE IF n = N_false THEN MalBool(FALSE)
        ELSE MalSymbol(n)]

create_default_env == << [data |-> DefaultData, outer |-> 0] >>

Root == 1

\* ------------------------------------------------------ evaluation records

\* The evaluation state threaded through eval: the arena of scopes and the
\* trace of what the evaluation did, in order.
\*   "eval"/"ret": entry to and return from eval at recursion depth d
\*   "new": env_new!(Some(outer)); "set": Env::set; "stdout"/"stderr": output
\*   "hold"/"drop": a borrow of a scope that lives across statements
Ev(k, d, env, outer, name, x) ==
    [k |-> k, d |-> d, env |-> env, outer |-> outer, name |-> name, x |-> x]

Emit(st, ev) == [st EXCEPT !.log = Append(@, ev)]

Ok(v, st) == [status |-> "ok", val |-> v, st |-> st]
Err(msg, arg, st) == [status |-> "err", val |-> ErrV(msg, arg), st |-> st]
\* A panic unwinds through every caller and aborts the process.
Panic(msg, st) == [status |-> "panic", val |-> ErrV(msg, MalNil), st |-> st]
\* The call stack is exhausted (the evaluator recurses on the host stack).
Overflow(st) == [status |-> "overflow", val |-> ErrV("stack overflow", MalNil), st |-> st]

\* env_new!(Some(outer)) during an evaluation; f is the Function applied, or
\* Nil when a let* creates the scope.
Alloc(st, outer, d, f) ==
    Emit([st EXCEPT !.store = EnvAlloc(@, outer)],
         Ev("new", d, NewEnvId(st.store), outer, <<>>, f))

\* env.borrow_mut().set(key, val) during an evaluation.
SetIn(st, env, key, val, d) ==
    Emit([st EXCEPT !.store = EnvSet(@, env, key, val)],
         Ev("set", d, env, 0, key, val))

\* A Ref of scope env that outlives its statement: "hold" when
\* env.borrow() is taken, "drop" when the Ref goes out of scope.
Hold(st, env, d) == Emit(st, Ev("hold", d, env, 0, <<>>, MalNil))
Drop(st, env, d) == Emit(st, Ev("drop", d, env, 0, <<>>, MalNil))

\* RefCell's borrow flag of scope env after the events of log: whether a Ref
\* taken earlier is still alive.
Borrowed(log, env) ==
    Cardinality({i \in 1..Len(log) : log[i].k = "hold" /\ log[i].env = env})
       > Cardinality({i \in 1..Len(log) : log[i].k = "drop" /\ log[i].env = env})

\* The panic of RefCell::borrow_mut on a scope that is borrowed.
BorrowMutError == "already borrowed: BorrowMutError"

\* ---------------------------------------------------------------- builtins

\* get_value!(v, number)
IsNumber(v) == Tag(v) = "Number"

\* a + b, a - b, a * b on i64: an overflow panics when overflow checks are
\* compiled in and wraps otherwise.
Checked(exact, what, st) ==
    IF InRange(exact) THEN Ok(MalNumber(exact), st)
    ELSE IF build = "debug" THEN Panic(what, st)
    ELSE Ok(MalNumber(Wrap(exact)), st)

\* The arms "+", "-", "*", "/" of apply_function.
Arith(op, args, st) ==
    IF Len(args) # 2 THEN Err("{} requires exactly 2 arguments", MalSymbol(op), st)
    ELSE IF ~IsNumber(args[1]) THEN Err("Expected number, got {:?}", args[1], st)
    ELSE IF ~IsNumber(args[2]) THEN Err("Expected number, got {:?}", args[2], st)
    ELSE LET a == Payload(args[1])
             b == Payload(args[2])
         IN CASE op = <<"+">> -> Checked(a + b, "attempt to add with overflow", st)
              [] op = <<"-">> -> Checked(a - b, "attempt to subtract with overflow", st)
              [] op = <<"*">> -> Checked(a * b, "attempt to multiply with overflow", st)
              [] op = <<"/">> ->
                    IF b = 0 THEN Err("division by zero", MalNil, st)
                    ELSE IF a = IntMin /\ b = -1
                         THEN Panic("attempt to divide with overflow", st)
                    ELSE Ok(MalNumber(TruncDiv(a, b)), st)

\* The arms ">", ">=", "<", "<=" of apply_function.
Compare(op, args, st) ==
    IF Len(args) # 2 THEN Err("{} requires exactly 2 arguments", MalSymbol(op), st)
    ELSE IF ~IsNumber(args[1]) THEN Err("Expected number, got {:?}", args[1], st)
    ELSE IF ~IsNumber(args[2]) THEN Err("Expected number, got {:?}", args[2], st)
    ELSE LET a == Payload(args[1])
             b == Payload(args[2])
         IN Ok(MalBool(CASE op = <<">">> -> a > b
                         [] op = <<">", "=">> -> a >= b
                         [] op = <<"<">> -> a < b
                         [] op = <<"<", "=">> -> a <= b), st)

\* args.iter().map(|arg| printer::pr_str(arg, readably)).collect().join(sep)
PrintArgs(args, readably, sep) ==
    JoinChars([i \in 1..Len(args) |-> pr_str(args[i], readably)], sep)

\* The arms of apply_function for a builtin name other than arithmetic and
\* comparison.
Builtin(s, args, st, d) ==
    CASE s = <<"=">> ->
            IF Len(args) # 2 THEN Err("{} requires exactly 2 arguments", MalSymbol(s), st)
            ELSE Ok(MalBool(MalEq(args[1], args[2])), st)
      [] s = N_list -> Ok(MalList(args), st)
      [] s = N_listp ->
            IF Len(args) # 1 THEN Err("{} requires exactly 1 argument", MalSymbol(s), st)
            ELSE Ok(MalBool(Tag(args[1]) = "List"), st)
      [] s = N_emptyp ->
            IF Len(args) # 1 THEN Err("{} requires exactly 1 argument", MalSymbol(s), st)
            ELSE IF Tag(args[1]) \in {"List", "Vector"}
                 THEN Ok(MalBool(Payload(args[1]) = <<>>), st)
            ELSE Err("empty? requires a list or vector argument", MalNil, st)
      [] s = N_count ->
            IF Len(args) # 1 THEN Err("{} requires exactly 1 argument", MalSymbol(s), st)
            ELSE IF Tag(args[1]) \in {"List", "Vector"}
                 THEN Ok(MalNumber(Len(Payload(args[1]))), st)
            ELSE IF Tag(args[1]) = "Nil" THEN Ok(MalNumber(0), st)
            ELSE Err("count requires a list, vector, or nil argument", MalNil, st)
      [] s = N_prstr -> Ok(MalString(PrintArgs(args, TRUE, <<" ">>)), st)
      [] s = N_str -> Ok(MalString(PrintArgs(args, FALSE, <<>>)), st)
      [] s = N_prn ->
            Ok(MalNil, Emit(st, Ev("stdout", d, 0, 0, <<>>,
                                   MalString(PrintArgs(args, TRUE, <<" ">>)))))
      [] s = N_println ->
            Ok(MalNil, Emit(st, Ev("stdout", d, 0, 0, <<>>,
                                   MalString(PrintArgs(args, FALSE, <<" ">>)))))
      [] s = N_not ->
            IF Len(args) # 1 THEN Err("{} requires exactly 1 argument", MalSymbol(s), st)
            ELSE Ok(MalBool(args[1] \in {MalBool(FALSE), MalNil}), st)

\* --------------------------------------------------------------- evaluator

SpecialNames == {N_def, N_let, N_do, N_if, N_fn}

\* A dispatch that takes a head for a special form only while no scope of
\* the environment chain binds its name.
IsSpecialUnlessBound(first, env, st) ==
    /\ Tag(first) = "Symbol"
    /\ Payload(first) \in SpecialNames
    /\ EnvGet(st, env, Payload(first)) = NoneV

\* match first { MalType::Symbol(sym) => match sym.as_str() { "def!" | "let*"
\* | "do" | "if" | "fn*" => ... } }: the head, unevaluated, names a special
\* form; the environment env and its store st take no part.
IsSpecial(first, env, st) == Tag(first) = "Symbol" /\ Payload(first) \in SpecialNames

RECURSIVE FnParams(_, _, _)
\* The while loop of handle_special!(fn*) over the parameter forms; i is the
\* code's 0-based index.
FnParams(params, i, param_names) ==
    IF i >= Len(params) THEN [ok |-> TRUE, names |-> param_names, msg |-> ""]
    ELSE LET p == params[i + 1]
         IN IF Tag(p) = "Symbol" /\ Payload(p) = N_amp
            THEN IF i + 1 >= Len(params)
                 THEN [ok |-> FALSE, names |-> param_names,
                       msg |-> "& must be followed by a symbol"]
                 ELSE IF Tag(params[i + 2]) = "Symbol"
                      THEN FnParams(params, i + 2,
                                    param_names \o <<N_amp, Payload(params[i + 2])>>)
                      ELSE [ok |-> FALSE, names |-> param_names,
                            msg |-> "& must be followed by a symbol"]
            ELSE IF Tag(p) = "Symbol"
                 THEN FnParams(params, i + 1, Append(param_names, Payload(p)))
                 ELSE [ok |-> FALSE, names |-> param_names,
                       msg |-> "fn* parameters must be symbols"]

\* handle_special!(fn*): the closure captures env itself (the Rc is cloned,
\* not the scope).
CapturedEnv(env) == env

\* A fn* that captured a copy of the current scope instead of sharing it.
HandleFnSnapshot(items, env, st) ==
    IF Len(items) # 3 THEN Err("fn* requires exactly 2 arguments", MalNil, st)
    ELSE IF Tag(items[2]) \in {"List", "Vector"}
         THEN LET r == FnParams(Payload(items[2]), 0, <<>>)
              IN IF r.ok
                 THEN Ok(MalFunction(r.names, items[3], NewEnvId(st.store)),
                         [st EXCEPT !.store = Append(@, st.store[env])])
                 ELSE Err(r.msg, MalNil, st)
         ELSE Err("fn* first argument must be a list or vector", MalNil, st)

\* handle_special!(fn*)
HandleFn(items, env, st) ==
    IF Len(items) # 3 THEN Err("fn* requires exactly 2 arguments", MalNil, st)
    ELSE IF Tag(items[2]) \in {"List", "Vector"}
         THEN LET r == FnParams(Payload(items[2]), 0, <<>>)
              IN IF r.ok
                 THEN Ok(MalFunction(r.names, items[3], CapturedEnv(env)), st)
                 ELSE Err(r.msg, MalNil, st)
         ELSE Err("fn* first argument must be a list or vector", MalNil, st)

\* eval's debug flag from env.borrow().get("DEBUG-EVAL").
DebugOn(v) == v = MalBool(TRUE) \/ Tag(v) \in {"Number", "String", "List"}

\* A truthiness test that also counts zero and the empty collections as falsy.
IsFalsyZeroEmpty(v) ==
    v \in {MalBool(FALSE), MalNil, MalNumber(0), MalString(<<>>), MalList(<<>>),
           MalVector(<<>>)}

\* The match of handle_special!(if) on the value of the condition.
IsFalsy(v) == v = MalBool(FALSE) \/ v = MalNil

\* A call scope chained to the scope of the caller (dynamic scoping).
CallOuterCaller(fn_env, caller_env) == caller_env

\* apply_fn!: the outer scope of the scope a call creates.
CallOuter(fn_env, caller_env) == fn_env

RECURSIVE BindParams(_, _, _, _, _, _, _)

\* A binding loop that takes Nil for the last argument.
BindParamsShort(params, args, regular_params_len, i, new_env, st, d) ==
    IF i >= regular_params_len THEN st
    ELSE BindParams(params, args, regular_params_len, i + 1, new_env,
                    SetIn(st, new_env, params[i + 1],
                          IF i + 1 < Len(args) THEN args[i + 1] ELSE MalNil, d),
                    d)

\* The while loop of apply_fn! over the fixed parameters; i is 0-based.
BindParams(params, args, regular_params_len, i, new_env, st, d) ==
    IF i >= regular_params_len THEN st
    ELSE BindParams(params, args, regular_params_len, i + 1, new_env,
                    SetIn(st, new_env, params[i + 1],
                          IF i < Len(args) THEN args[i + 1] ELSE MalNil, d),
                    d)

\* apply_fn!: whether the last but one parameter is "&".
IsVariadic(params) == Len(params) >= 2 /\ params[Len(params) - 1] = N_amp

RECURSIVE Eval(_, _, _, _)
RECURSIVE EvalItems(_, _, _, _, _)
RECURSIVE EvalPairs(_, _, _, _, _)
RECURSIVE LetBind(_, _, _, _, _)
RECURSIVE DoLoop(_, _, _, _, _, _)
RECURSIVE ApplyFn(_, _, _, _, _)
RECURSIVE ApplyFunction(_, _, _, _, _)

\* An evaluation of the elements that takes Nil for an element that fails and
\* goes on with the next.
EvalItemsKeepGoing(items, env, st, d, evaluated) ==
    IF Len(evaluated) = Len(items) THEN Ok(MalList(evaluated), st)
    ELSE LET r == Eval(items[Len(evaluated) + 1], env, st, d + 1)
         IN IF r.status = "err"
            THEN EvalItems(items, env, r.st, d, Append(evaluated, MalNil))
            ELSE IF r.status # "ok" THEN r
            ELSE EvalItems(items, env, r.st, d, Append(evaluated, r.val))

\* for expr in items { evaluated.push(eval(expr, env)?) }: the values of
\* items left to right, as a List, or the first failure.
EvalItems(items, env, st, d, evaluated) ==
    IF Len(evaluated) = Len(items) THEN Ok(MalList(evaluated), st)
    ELSE LET r == Eval(items[Len(evaluated) + 1], env, st, d + 1)
         IN IF r.status # "ok" THEN r
            ELSE EvalItems(items, env, r.st, d, Append(evaluated, r.val))

\* eval_ast on a Map: keys are cloned, values evaluated left to right.
EvalPairs(pairs, env, st, d, new_pairs) ==
    IF Len(new_pairs) = Len(pairs) THEN Ok(MalMap(new_pairs), st)
    ELSE LET p == pairs[Len(new_pairs) + 1]
             r == Eval(p[2], env, st, d + 1)
         IN IF r.status # "ok" THEN r
            ELSE EvalPairs(pairs, env, r.st, d, Append(new_pairs, <<p[1], r.val>>))

\* eval_ast
EvalAst(ast, env, st, d) ==
    CASE Tag(ast) = "Symbol" ->
            LET v == EnvGet(st.store, env, Payload(ast))
            IN IF v = NoneV THEN Err("Symbol '{}' not found", ast, st) ELSE Ok(v, st)
      [] Tag(ast) = "List" -> EvalItems(Payload(ast), env, st, d, <<>>)
      [] Tag(ast) = "Vector" ->
            LET r == EvalItems(Payload(ast), env, st, d, <<>>)
            IN IF r.status # "ok" THEN r ELSE Ok(MalVector(Payload(r.val)), r.st)
      [] Tag(ast) = "Map" -> EvalPairs(Payload(ast), env, st, d, <<>>)
      [] OTHER -> Ok(ast, st)

\* A def! that binds in the root scope, wherever it is evaluated.
HandleDefInRoot(items, env, st, d) ==
    IF Len(items) # 3 THEN Err("def! requires exactly 2 arguments", MalNil, st)
    ELSE IF Tag(items[2]) = "Symbol"
         THEN LET r == Eval(items[3], env, st, d + 1)
              IN IF r.status # "ok" THEN r
                 ELSE Ok(r.val, SetIn(r.st, 1, Payload(items[2]), r.val, d))
         ELSE Err("def! first argument must be a symbol", MalNil, st)

\* A def! that evaluates its operand before it looks at its target.
HandleDefEvalFirst(items, env, st, d) ==
    IF Len(items) # 3 THEN Err("def! requires exactly 2 arguments", MalNil, st)
    ELSE LET r == Eval(items[3], env, st, d + 1)
         IN IF r.status # "ok" THEN r
            ELSE IF Tag(items[2]) = "Symbol"
                 THEN Ok(r.val, SetIn(r.st, env, Payload(items[2]), r.val, d))
                 ELSE Err("def! first argument must be a symbol", MalNil, r.st)

\* A def! that binds in a new child scope of the current environment.
HandleDefInChild(items, env, st, d) ==
    IF Len(items) # 3 THEN Err("def! requires exactly 2 arguments", MalNil, st)
    ELSE IF Tag(items[2]) = "Symbol"
         THEN LET r == Eval(items[3], env, st, d + 1)
              IN IF r.status # "ok" THEN r
                 ELSE Ok(r.val, SetIn(Alloc(r.st, env, d, MalNil), NewEnvId(r.st.store),
                                      Payload(items[2]), r.val, d))
         ELSE Err("def! first argument must be a symbol", MalNil, st)

\* A def! that takes the mutable borrow of its scope before it evaluates its
\* operand and gives it back after the binding.
HandleDefBorrowsFirst(items, env, st, d) ==
    IF Len(items) # 3 THEN Err("def! requires exactly 2 arguments", MalNil, st)
    ELSE IF Tag(items[2]) = "Symbol"
         THEN IF Borrowed(st.log, env) THEN Panic(BorrowMutError, st)
              ELSE LET r == Eval(items[3], env, Hold(st, env, d), d + 1)
                   IN IF r.status # "ok" THEN r
                      ELSE Ok(r.val, Drop(SetIn(r.st, env, Payload(items[2]), r.val, d),
                                          env, d))
         ELSE Err("def! first argument must be a symbol", MalNil, st)

\* handle_special!(def!); $env.borrow_mut() panics when a Ref of the scope
\* is alive.
HandleDef(items, env, st, d) ==
    IF Len(items) # 3 THEN Err("def! requires exactly 2 arguments", MalNil, st)
    ELSE IF Tag(items[2]) = "Symbol"
         THEN LET r == Eval(items[3], env, st, d + 1)
              IN IF r.status # "ok" THEN r
                 ELSE IF Borrowed(r.st.log, env) THEN Panic(BorrowMutError, r.st)
                 ELSE Ok(r.val, SetIn(r.st, env, Payload(items[2]), r.val, d))
         ELSE Err("def! first argument must be a symbol", MalNil, st)

\* A let* whose initializers are evaluated in the enclosing environment.
LetBindInOuter(bindings, i, new_env, st, d) ==
    IF 2 * i >= Len(bindings) THEN Ok(MalNil, st)
    ELSE LET key == bindings[2 * i + 1]
         IN IF Tag(key) = "Symbol"
            THEN LET r == Eval(bindings[2 * i + 2], st.store[new_env].outer, st, d + 1)
                 IN IF r.status # "ok" THEN r
                    ELSE LetBind(bindings, i + 1, new_env,
                                 SetIn(r.st, new_env, Payload(key), r.val, d), d)
            ELSE Err("let* binding key must be a symbol", MalNil, st)

\* The for chunk in bindings.chunks(2) loop of handle_special!(let*); i is
\* the number of chunks already bound. Returns the state, or the failure.
LetBind(bindings, i, new_env, st, d) ==
    IF 2 * i >= Len(bindings) THEN Ok(MalNil, st)
    ELSE LET key == bindings[2 * i + 1]
         IN IF Tag(key) = "Symbol"
            THEN LET r == Eval(bindings[2 * i + 2], new_env, st, d + 1)
                 IN IF r.status # "ok" THEN r
                    ELSE LetBind(bindings, i + 1, new_env,
                                 SetIn(r.st, new_env, Payload(key), r.val, d), d)
            ELSE Err("let* binding key must be a symbol", MalNil, st)

\* handle_special!(let*)
HandleLet(items, env, st, d) ==
    IF Len(items) # 3 THEN Err("let* requires exactly 2 arguments", MalNil, st)
    ELSE LET new_env == NewEnvId(st.store)
             st1 == Alloc(st, env, d, MalNil)
         IN IF Tag(items[2]) \in {"List", "Vector"}
            THEN LET bindings == Payload(items[2])
                 IN IF Len(bindings) % 2 # 0
                    THEN Err("let* requires an even number of binding forms", MalNil, st1)
                    ELSE LET b == LetBind(bindings, 0, new_env, st1, d)
                         IN IF b.status # "ok" THEN b
                            ELSE Eval(items[3], new_env, b.st, d + 1)
            ELSE Err("let* first argument must be a list or vector", MalNil, st1)

\* A do that goes on to the next operand after a failure.
DoLoopNoStop(items, i, env, st, d, result) ==
    IF i > Len(items) THEN result
    ELSE LET r == Eval(items[i], env, st, d + 1)
         IN DoLoop(items, i + 1, env, r.st, d, r)

\* The loop of handle_special!(do) over items[i..]; result is the last result.
DoLoop(items, i, env, st, d, result) ==
    IF i > Len(items) THEN result
    ELSE LET r == Eval(items[i], env, st, d + 1)
         IN IF r.status # "ok" THEN r
            ELSE DoLoop(items, i + 1, env, r.st, d, r)

\* handle_special!(do)
HandleDo(items, env, st, d) ==
    IF Len(items) < 2 THEN Err("do requires at least one argument", MalNil, st)
    ELSE DoLoop(items, 2, env, st, d, Ok(MalNil, st))

\* handle_special!(if)
HandleIf(items, env, st, d) ==
    IF Len(items) # 3 /\ Len(items) # 4
    THEN Err("if requires 2 or 3 arguments", MalNil, st)
    ELSE LET c == Eval(items[2], env, st, d + 1)
         IN IF c.status # "ok" THEN c
            ELSE IF IsFalsy(c.val)
                 THEN IF Len(items) = 4 THEN Eval(items[4], env, c.st, d + 1)
                      ELSE Ok(MalNil, c.st)
                 ELSE Eval(items[3], env, c.st, d + 1)

\* apply_fn!
ApplyFn(f, args, env, st, d) ==
    IF Tag(f) # "Function" THEN Err("Expected function, got {:?}", f, st)
    ELSE LET params == Payload(f).params
             new_env == NewEnvId(st.store)
             st0 == Alloc(st, CallOuter(Payload(f).env, env), d, f)
             is_variadic == IsVariadic(params)
             regular_params_len ==
                 IF is_variadic THEN Len(params) - 2 ELSE Len(params)
             st1 == BindParams(params, args, regular_params_len, 0, new_env, st0, d)
         IN IF is_variadic
            THEN \* &$args[i..] with i = regular_params_len
                 IF regular_params_len > Len(args)
                 THEN Panic("range start index out of range for slice", st1)
                 ELSE Eval(Payload(f).body, new_env,
                           SetIn(st1, new_env, params[Len(params)],
                                 MalList(SubSeq(args, regular_params_len + 1, Len(args))),
                                 d),
                           d + 1)
            ELSE Eval(Payload(f).body, new_env, st1, d + 1)

\* apply_function
ApplyFunction(f, args, env, st, d) ==
    CASE Tag(f) = "Function" -> ApplyFn(f, args, env, st, d)
      [] Tag(f) = "Symbol" ->
            LET s == Payload(f)
            IN CASE s \in {<<"+">>, <<"-">>, <<"*">>, <<"/">>} -> Arith(s, args, st)
                 [] s \in {<<">">>, <<">", "=">>, <<"<">>, <<"<", "=">>} ->
                       Compare(s, args, st)
                 [] s \in BuiltinNames \ {<<"+">>, <<"-">>, <<"*">>, <<"/">>, <<">">>,
                                          <<">", "=">>, <<"<">>, <<"<", "=">>} ->
                       Builtin(s, args, st, d)
                 [] OTHER ->
                       \* if let Some(val) = env.borrow().get(s) { .. }: the Ref
                       \* lives to the end of the if let
                       LET val == EnvGet(st.store, env, s)
                       IN IF val = NoneV THEN Err("Unknown function: {}", f, st)
                          ELSE IF Tag(val) = "Function"
                               THEN LET r == ApplyFn(val, args, env, Hold(st, env, d), d)
                                    IN [r EXCEPT !.st = Drop(@, env, d)]
                               ELSE Err("Symbol '{}' is not a function", f, st)
      [] OTHER -> Err("first element must be a function", MalNil, st)

\* eval
Eval(ast, env, st, d) ==
    IF d > MaxDepth THEN Overflow(st)
    ELSE LET debug == DebugOn(EnvGet(st.store, env, N_debug))
             st1 == Emit(st, Ev("eval", d, env, 0, <<>>, ast))
             st2 == IF debug
                    THEN Emit(st1, Ev("stderr", d, env, 0, <<>>,
                                      MalString(<<"E", "V", "A", "L", ":", " ">>
                                                \o pr_str(ast, TRUE))))
                    ELSE st1
             result ==
                 IF Tag(ast) = "List" /\ Payload(ast) # <<>>
                 THEN LET items == Payload(ast)
                          first == items[1]
                      IN IF IsSpecial(first, env, st2.store)
                         THEN CASE Payload(first) = N_def -> HandleDef(items, env, st2, d)
                                [] Payload(first) = N_let -> HandleLet(items, env, st2, d)
                                [] Payload(first) = N_do -> HandleDo(items, env, st2, d)
                                [] Payload(first) = N_if -> HandleIf(items, env, st2, d)
                                [] Payload(first) = N_fn -> HandleFn(items, env, st2)
                         ELSE LET e == EvalItems(items, env, st2, d, <<>>)
                              IN IF e.status # "ok" THEN e
                                 ELSE ApplyFunction(Head(Payload(e.val)),
                                                    Tail(Payload(e.val)), env, e.st, d)
                 ELSE EvalAst(ast, env, st2, d)
             st3 == IF debug /\ result.status = "ok"
                    THEN Emit(result.st, Ev("stderr", d, env, 0, <<>>,
                                            MalString(pr_str(result.val, TRUE))))
                    ELSE result.st
         IN [result EXCEPT !.st =
                Emit(st3, Ev(IF result.status \in {"ok", "err"} THEN "ret" ELSE "unwind",
                             d, env, 0, <<>>, result.val))]

\* ------------------------------------------------------------------ reader

\* char::is_whitespace, is_digit(10), is_alphabetic, is_alphanumeric on the
\* characters the model's texts are written in.
Whitespace == {" ", "\t", "\n", "\r"}
Digits == {"0", "1", "2", "3", "4", "5", "6", "7", "8", "9"}
Letters ==
    {"a", "b", "c", "d", "e", "f", "g", "h", "i", "j", "k", "l", "m", "n", "o", "p",
     "q", "r", "s", "t", "u", "v", "w", "x", "y", "z",
     "A", "B", "C", "D", "E", "F", "G", "H", "I", "J", "K", "L", "M", "N", "O", "P",
     "Q", "R", "S", "T", "U", "V", "W", "X", "Y", "Z"}
IsAlphanumeric(c) == c \in Letters \cup Digits
\* "+-*/<>=!?_"
SymbolStart == {"+", "-", "*", "/", "<", ">", "=", "!", "?", "_"}
\* "+-*/<>=!?_-:"
SymbolRest == SymbolStart \cup {"-", ":"}
\* "+-*/<>=!?_-"
KeywordRest == SymbolStart \cup {"-"}

Tok(kind, x) == <<kind, x>>

\* The grave accent character (U+0060), which a string of this notation
\* cannot hold; this one element of a text stands for it.
Backquote == "U+0060"

\* The single-character tokens of tokenize.
SingleTokens ==
    [c \in {"(", ")", "[", "]", "{", "}", "'", Backquote, "@", "^"} |->
        CASE c = "(" -> "LeftParen"
          [] c = ")" -> "RightParen"
          [] c = "[" -> "LeftBracket"
          [] c = "]" -> "RightBracket"
          [] c = "{" -> "LeftBrace"
          [] c = "}" -> "RightBrace"
          [] c = "'" -> "Quote"
          [] c = Backquote -> "Quasiquote"
          [] c = "@" -> "Deref"
          [] c = "^" -> "Meta"]

RECURSIVE read_string(_, _, _)
\* read_string: chars from position i (after the opening quote); the result
\* holds the position after the closing quote.
read_string(chars, i, result) ==
    IF i > Len(chars) THEN [ok |-> FALSE, s |-> result, next |-> i]
    ELSE IF chars[i] = "\"" THEN [ok |-> TRUE, s |-> result, next |-> i + 1]
    ELSE IF chars[i] = "\\"
         THEN IF i + 1 > Len(chars) THEN [ok |-> FALSE, s |-> result, next |-> i + 1]
              ELSE read_string(chars, i + 2,
                               Append(result, IF chars[i + 1] = "n" THEN "\n"
                                              ELSE chars[i + 1]))
    ELSE read_string(chars, i + 1, Append(result, chars[i]))

RECURSIVE skip_comment(_, _)
\* skip_comment: the position of the next newline, or the end.
skip_comment(chars, i) ==
    IF i > Len(chars) \/ chars[i] = "\n" THEN i ELSE skip_comment(chars, i + 1)

RECURSIVE TakeWhile(_, _, _)
\* The position after the longest run of characters of set from i.
TakeWhile(chars, i, set) ==
    IF i <= Len(chars) /\ chars[i] \in set THEN TakeWhile(chars, i + 1, set) ELSE i

DigitValue(c) == CHOOSE k \in 0..9 : DigitChars[k + 1] = c

RECURSIVE ParseNat(_, _, _)
\* The value of a digit run; -1 once it exceeds every Number.
ParseNat(chars, i, acc) ==
    IF i > Len(chars) THEN acc
    ELSE LET v == acc * 10 + DigitValue(chars[i])
         IN IF v > -IntMin THEN -1 ELSE ParseNat(chars, i + 1, v)

\* str::parse::<i64>() of an optional '-' and a digit run.
ParseNumber(number) ==
    LET neg == number[1] = "-"
        mag == ParseNat(IF neg THEN Tail(number) ELSE number, 1, 0)
        v == IF neg THEN -mag ELSE mag
    IN IF mag < 0 \/ ~InRange(v) THEN [ok |-> FALSE, n |-> 0] ELSE [ok |-> TRUE, n |-> v]

RECURSIVE tokenize_from(_, _, _)
\* The loop of tokenize from position i with the tokens found so far.
tokenize_from(chars, i, tokens) ==
    IF i > Len(chars) THEN [ok |-> TRUE, tokens |-> tokens, err |-> ""]
    ELSE LET c == chars[i]
         IN CASE c \in Whitespace \/ c = "," -> tokenize_from(chars, i + 1, tokens)
              [] c = ";" -> tokenize_from(chars, skip_comment(chars, i), tokens)
              [] c = "\"" ->
                    LET r == read_string(chars, i + 1, <<>>)
                    IN IF r.ok
                       THEN tokenize_from(chars, r.next, Append(tokens, Tok("String", r.s)))
                       ELSE [ok |-> FALSE, tokens |-> tokens, err |-> "end of input"]
              [] c \in DOMAIN SingleTokens ->
                    tokenize_from(chars, i + 1, Append(tokens, Tok(SingleTokens[c], 0)))
              [] c = "~" ->
                    IF i + 1 <= Len(chars) /\ chars[i + 1] = "@"
                    THEN tokenize_from(chars, i + 2, Append(tokens, Tok("SpliceUnquote", 0)))
                    ELSE tokenize_from(chars, i + 1, Append(tokens, Tok("Unquote", 0)))
              [] c = ":" ->
                    LET j == TakeWhile(chars, i + 1, Letters \cup Digits \cup KeywordRest)
                    IN tokenize_from(chars, j,
                                     Append(tokens, Tok("Keyword", SubSeq(chars, i + 1, j - 1))))
              [] c \in Digits
                 \/ (c = "-" /\ i + 1 <= Len(chars) /\ chars[i + 1] \in Digits) ->
                    LET j == TakeWhile(chars, i + 1, Digits)
                        p == ParseNumber(SubSeq(chars, i, j - 1))
                    IN tokenize_from(chars, j,
                                     IF p.ok THEN Append(tokens, Tok("Number", p.n))
                                     ELSE tokens)
              [] c \in (Letters \cup SymbolStart)
                 /\ ~(c = "-" /\ i + 1 <= Len(chars) /\ chars[i + 1] \in Digits) ->
                    LET j == TakeWhile(chars, i, Letters \cup Digits \cup SymbolRest)
                    IN tokenize_from(chars, j,
                                     Append(tokens, Tok("Symbol", SubSeq(chars, i, j - 1))))
              [] OTHER -> tokenize_from(chars, i + 1, tokens)

\* tokenize
tokenize(input) == tokenize_from(input, 1, <<>>)

ROk(v, pos) == [ok |-> TRUE, val |-> v, pos |-> pos, err |-> ""]
RErr(msg, pos) == [ok |-> FALSE, val |-> MalNil, pos |-> pos, err |-> msg]

\* read_atom
read_atom(token, pos) ==
    CASE token[1] = "Number" -> ROk(MalNumber(token[2]), pos)
      [] token[1] = "Symbol" -> ROk(MalSymbol(token[2]), pos)
      [] token[1] = "String" -> ROk(MalString(token[2]), pos)
      [] token[1] = "Keyword" -> ROk(MalKeyword(token[2]), pos)
      [] OTHER -> RErr("Invalid atom", pos)

\* The (quote x) family of read_form.
ReaderMacros ==
    [k \in {"Quote", "Quasiquote", "Unquote", "SpliceUnquote", "Deref"} |->
        CASE k = "Quote" -> <<"q", "u", "o", "t", "e">>
          [] k = "Quasiquote" -> <<"q", "u", "a", "s", "i", "q", "u", "o", "t", "e">>
          [] k = "Unquote" -> <<"u", "n", "q", "u", "o", "t", "e">>
          [] k = "SpliceUnquote" ->
                <<"s", "p", "l", "i", "c", "e", "-", "u", "n", "q", "u", "o", "t", "e">>
          [] k = "Deref" -> <<"d", "e", "r", "e", "f">>]

RECURSIVE read_form(_, _)
RECURSIVE read_seq(_, _, _, _)
RECURSIVE read_hash_map(_, _, _)

\* read_list and read_vector: the forms up to the token closer.
read_seq(tokens, pos, closer, items) ==
    IF pos > Len(tokens) THEN RErr("end of input", pos)
    ELSE IF tokens[pos][1] = closer
         THEN ROk(IF closer = "RightParen" THEN MalList(items) ELSE MalVector(items),
                  pos + 1)
    ELSE LET r == read_form(tokens, pos)
         IN IF ~r.ok THEN r ELSE read_seq(tokens, r.pos, closer, Append(items, r.val))

\* read_hash_map
read_hash_map(tokens, pos, pairs) ==
    IF pos > Len(tokens) THEN RErr("end of input", pos)
    ELSE IF tokens[pos][1] = "RightBrace" THEN ROk(MalMap(pairs), pos + 1)
    ELSE LET key == read_form(tokens, pos)
         IN IF ~key.ok THEN key
            ELSE IF key.pos > Len(tokens) THEN RErr("end of input", key.pos)
            ELSE LET value == read_form(tokens, key.pos)
                 IN IF ~value.ok THEN value
                    ELSE read_hash_map(tokens, value.pos,
                                       Append(pairs, <<key.val, value.val>>))

\* read_form: reader.next() and the match on the token; pos is the reader's
\* position (1-based), the result holds the position after the form.
read_form(tokens, pos) ==
    IF pos > Len(tokens) THEN RErr("end of input", pos)
    ELSE LET token == tokens[pos]
         IN CASE token[1] \in DOMAIN ReaderMacros ->
                    LET form == read_form(tokens, pos + 1)
                    IN IF ~form.ok THEN form
                       ELSE ROk(MalList(<<MalSymbol(ReaderMacros[token[1]]), form.val>>),
                                form.pos)
              [] token[1] = "Meta" ->
                    LET meta == read_form(tokens, pos + 1)
                    IN IF ~meta.ok THEN meta
                       ELSE LET form == read_form(tokens, meta.pos)
                            IN IF ~form.ok THEN form
                               ELSE ROk(MalList(<<MalSymbol(<<"w", "i", "t", "h", "-",
                                                              "m", "e", "t", "a">>),
                                                  form.val, meta.val>>), form.pos)
              [] token[1] = "LeftParen" -> read_seq(tokens, pos + 1, "RightParen", <<>>)
              [] token[1] = "LeftBracket" -> read_seq(tokens, pos + 1, "RightBracket", <<>>)
              [] token[1] = "LeftBrace" -> read_hash_map(tokens, pos + 1, <<>>)
              [] OTHER -> read_atom(token, pos + 1)

\* A read_str that fails when tokens are left after the first form.
read_str_to_end(input) ==
    LET t == tokenize(input)
    IN IF ~t.ok THEN RErr(t.err, 0)
       ELSE IF t.tokens = <<>> THEN RErr("Empty input", 0)
       ELSE LET r == read_form(t.tokens, 1)
            IN IF r.ok /\ r.pos <= Len(t.tokens) THEN RErr("unexpected token", r.pos)
               ELSE r

\* read_str
read_str(input) ==
    LET t == tokenize(input)
    IN IF ~t.ok THEN RErr(t.err, 0)
       ELSE IF t.tokens = <<>> THEN RErr("Empty input", 0)
       ELSE read_form(t.tokens, 1)

\* ---------------------------------------------------------- scope lifetime

RECURSIVE EnvsIn(_)
\* The scopes a value holds an Rc to (the env of every Function in it).
EnvsIn(v) ==
    CASE Tag(v) = "Function" -> {Payload(v).env} \cup EnvsIn(Payload(v).body)
      [] Tag(v) \in {"List", "Vector"} ->
            UNION {EnvsIn(Payload(v)[i]) : i \in 1..Len(Payload(v))}
      [] Tag(v) = "Map" ->
            UNION {EnvsIn(Payload(v)[i][1]) \cup EnvsIn(Payload(v)[i][2]) :
                   i \in 1..Len(Payload(v))}
      [] OTHER -> {}

\* The scopes scope i holds an Rc to: its outer and those of its values.
Held(st, i) ==
    (IF st[i].outer # 0 THEN {st[i].outer} ELSE {})
    \cup UNION {EnvsIn(st[i].data[n]) : n \in DOMAIN st[i].data}

RECURSIVE Reach(_, _)
Reach(st, S) ==
    LET T == S \cup UNION {Held(st, i) : i \in S}
    IN IF T = S THEN S ELSE Reach(st, T)

SetMax(S) == CHOOSE m \in S : \A n \in S : n <= m

\* When a top-level evaluation has returned and its result was printed, the
\* scopes it created that no scope reachable from the root holds are dropped.
\* The arena gives up the dropped scopes at its end.
Release(st) == SubSeq(st, 1, SetMax(Reach(st, {Root})))

\* ------------------------------------------------------------------- forms

Sym(n) == MalSymbol(n)
Num(i) == MalNumber(i)
Lst(items) == MalList(items)

n_x == <<"x">>
n_y == <<"y">>
n_a == <<"a">>
n_b == <<"b">>
n_c == <<"c">>
n_r == <<"r">>
n_f == <<"f">>
n_g == <<"g">>
n_h == <<"h">>
n_n == <<"n">>
n_zz == <<"z", "z">>

\* (def! x 1), (def! x 2): bind and overwrite in the root scope
DefX(i) == Lst(<<Sym(N_def), Sym(n_x), Num(i)>>)
\* (def! f (fn* () x)): a closure over the root scope with a free variable
DefF == Lst(<<Sym(N_def), Sym(n_f), Lst(<<Sym(N_fn), Lst(<<>>), Sym(n_x)>>)>>)
\* (def! g (fn* (n) (if (= n 0) 0 (g (- n 1))))): a function calling itself
DefG ==
    Lst(<<Sym(N_def), Sym(n_g),
        Lst(<<Sym(N_fn), Lst(<<Sym(n_n)>>),
            Lst(<<Sym(N_if), Lst(<<Sym(<<"=">>), Sym(n_n), Num(0)>>), Num(0),
                Lst(<<Sym(n_g), Lst(<<Sym(<<"-">>), Sym(n_n), Num(1)>>)>>)>>)>>)>>)
\* (def! h (let* (x 7) (fn* () x))): a closure over a let* scope
DefH ==
    Lst(<<Sym(N_def), Sym(n_h),
        Lst(<<Sym(N_let), Lst(<<Sym(n_x), Num(7)>>), Lst(<<Sym(N_fn), Lst(<<>>), Sym(n_x)>>)>>)>>)

\* (f), (h), (g 2)
CallF == Lst(<<Sym(n_f)>>)
CallH == Lst(<<Sym(n_h)>>)
CallG == Lst(<<Sym(n_g), Num(2)>>)
\* (let* (x 5) (f)), (let* (x 5) (h)): a call from a scope that shadows x
ShadowCall(fname) == Lst(<<Sym(N_let), Lst(<<Sym(n_x), Num(5)>>), Lst(<<Sym(fname)>>)>>)
\* ((fn* (x) (f)) 9): a call from a function scope that shadows x
FnShadowCall == Lst(<<Lst(<<Sym(N_fn), Lst(<<Sym(n_x)>>), Lst(<<Sym(n_f)>>)>>), Num(9)>>)

\* (let* (x 2 y (+ x 1)) (* x y))
LetForm ==
    Lst(<<Sym(N_let), Lst(<<Sym(n_x), Num(2), Sym(n_y), Lst(<<Sym(<<"+">>), Sym(n_x), Num(1)>>)>>),
          Lst(<<Sym(<<"*">>), Sym(n_x), Sym(n_y)>>)>>)
\* (let* [y x x 2] y): an initializer that names a later binding
LetLater ==
    Lst(<<Sym(N_let), MalVector(<<Sym(n_y), Sym(n_x), Sym(n_x), Num(2)>>), Sym(n_y)>>)
\* (let* (a (def! b 1) y b) (list a y)): an initializer that binds by def!
LetDefInit ==
    Lst(<<Sym(N_let),
          Lst(<<Sym(n_a), Lst(<<Sym(N_def), Sym(n_b), Num(1)>>), Sym(n_y), Sym(n_b)>>),
          Lst(<<Sym(N_list), Sym(n_a), Sym(n_y)>>)>>)
\* (let* (x 1 y zz x 3) x): the second initializer fails
LetFailInit ==
    Lst(<<Sym(N_let), Lst(<<Sym(n_x), Num(1), Sym(n_y), Sym(n_zz), Sym(n_x), Num(3)>>),
          Sym(n_x)>>)
\* (let* (x 1) (do (def! f (fn* () x)) (def! x 2) (f))): a closure and a later
\* def! in the let* scope it captured
LetShare ==
    Lst(<<Sym(N_let), Lst(<<Sym(n_x), Num(1)>>),
          Lst(<<Sym(N_do),
                Lst(<<Sym(N_def), Sym(n_f), Lst(<<Sym(N_fn), Lst(<<>>), Sym(n_x)>>)>>),
                Lst(<<Sym(N_def), Sym(n_x), Num(2)>>),
                Lst(<<Sym(n_f)>>)>>)>>)

LetForms == {LetForm, LetLater, LetDefInit, LetFailInit, LetShare}

\* The conditions of the if forms: values that are falsy, values that are
\* truthy, a Symbol that depends on the environment and one that fails.
IfConds ==
    {Num(0), MalString(<<>>), Lst(<<>>), MalVector(<<>>), MalMap(<<>>),
     MalKeyword(<<"k">>), Sym(N_nil), Sym(N_false), Sym(N_true), MalNil,
     Sym(n_x), Sym(n_zz)}
\* (if c 1 2) and (if c 1)
IfForm(c, withElse) ==
    Lst(<<Sym(N_if), c, Num(1)>> \o (IF withElse THEN <<Num(2)>> ELSE <<>>))

IfForms == {IfForm(c, e) : c \in IfConds, e \in BOOLEAN}

\* (do 1 2 3), (do 7)
DoPure == Lst(<<Sym(N_do), Num(1), Num(2), Num(3)>>)
DoOne == Lst(<<Sym(N_do), Num(7)>>)
\* (do (def! x 1) (def! x 2) x)
DoDefs == Lst(<<Sym(N_do), DefX(1), DefX(2), Sym(n_x)>>)
\* (do (def! x 1) zz (def! x 2)): the second operand fails
DoFail == Lst(<<Sym(N_do), DefX(1), Sym(n_zz), DefX(2)>>)
\* (do zz (def! x 1)): the first operand fails
DoFailFirst == Lst(<<Sym(N_do), Sym(n_zz), DefX(1)>>)

DoForms == {DoPure, DoOne, DoDefs, DoFail, DoFailFirst}

\* The largest number of arguments of the calls below.
MaxArgs == 3

\* Parameter sequences: fixed only, and ending in & r.
ParamLists ==
    {<<>>, <<n_a>>, <<n_a, n_b>>, <<N_amp, n_r>>, <<n_a, N_amp, n_r>>,
     <<n_a, n_b, N_amp, n_r>>}

\* ((fn* params (list p ..)) 1 .. n): the body lists every parameter name.
CallWith(params, n) ==
    LET names == SelectSeq(params, LAMBDA q : q # N_amp)
    IN Lst(<<Lst(<<Sym(N_fn),
                   Lst([i \in 1..Len(params) |-> Sym(params[i])]),
                   Lst(<<Sym(N_list)>> \o [i \in 1..Len(names) |-> Sym(names[i])])>>)>>
           \o [i \in 1..n |-> Num(i)])

ArityForms == {CallWith(params, n) : params \in ParamLists, n \in 0..MaxArgs}

DefForms == {DefX(1), DefX(2), DefF, DefG, DefH}
CallForms == {Sym(n_x), CallF, CallH, CallG, ShadowCall(n_f), ShadowCall(n_h), FnShadowCall}

\* The forms whose outcome depends on, or changes, the root environment.
Forms == DefForms \cup CallForms \cup LetForms \cup DoForms

\* ------------------------------------------------------------------- texts

\* ((fn* (a & rest) (list a rest)) 1 2 3)   (the variadic call of the specification)
VariadicText ==
    <<"(", "(", "f", "n", "*", " ", "(", "a", " ", "&", " ", "r", "e", "s", "t", ")",
      " ", "(", "l", "i", "s", "t", " ", "a", " ", "r", "e", "s", "t", ")", ")", " ",
      "1", " ", "2", " ", "3", ")">>
\* ((fn* (a b & r) (list a b r)) 1 2 3)   (two fixed parameters and a rest parameter)
VariadicText2 ==
    <<"(", "(", "f", "n", "*", " ", "(", "a", " ", "b", " ", "&", " ", "r", ")", " ",
      "(", "l", "i", "s", "t", " ", "a", " ", "b", " ", "r", ")", ")", " ", "1", " ",
      "2", " ", "3", ")">>
\* ((fn* (& r) r) 1 2)   (a rest parameter alone)
VariadicText0 ==
    <<"(", "(", "f", "n", "*", " ", "(", "&", " ", "r", ")", " ", "r", ")", " ", "1",
      " ", "2", ")">>
\* ((fn* (a b) (list a b)) 1 2)   (a call with fixed parameters only)
FixedText ==
    <<"(", "(", "f", "n", "*", " ", "(", "a", " ", "b", ")", " ", "(", "l", "i", "s",
      "t", " ", "a", " ", "b", ")", ")", " ", "1", " ", "2", ")">>
\* (def! x 5)
DefText ==
    <<"(", "d", "e", "f", "!", " ", "x", " ", "5", ")">>
\* x
SymText ==
    <<"x">>
\* (let* (x 2 y (+ x 1)) (* x y))
LetText ==
    <<"(", "l", "e", "t", "*", " ", "(", "x", " ", "2", " ", "y", " ", "(", "+", " ",
      "x", " ", "1", ")", ")", " ", "(", "*", " ", "x", " ", "y", ")", ")">>
\* (if false 1)
IfText ==
    <<"(", "i", "f", " ", "f", "a", "l", "s", "e", " ", "1", ")">>
\* ; nothing   (a comment only)
EmptyText ==
    <<";", " ", "n", "o", "t", "h", "i", "n", "g">>
\* (+ 1   (a list that is not closed)
OpenText ==
    <<"(", "+", " ", "1">>

Texts ==
    {VariadicText, VariadicText2, VariadicText0, FixedText, DefText,
     SymText, LetText, IfText, EmptyText, OpenText}

\* -------------------------------------------------------------- operations

NoText == <<>>

Record(op, env, name, ast, text, status, val, log, pre) ==
    [op |-> op, env |-> env, name |-> name, ast |-> ast, text |-> text,
     status |-> status, val |-> val, log |-> log, pre |-> pre]

Init ==
    /\ store = create_default_env
    /\ last = Record("init", 0, <<>>, MalNil, NoText, "ok", MalNil, <<>>, <<>>)
    /\ steps = 0
    /\ running = TRUE
    /\ build \in {"debug", "release"}

\* eval(&ast, &env) of one top-level form in the root environment, as the
\* REPL loop does after reading it; a panic aborts the process.
EvalForm(ast) ==
    /\ running
    /\ steps < MaxSteps
    /\ LET r == Eval(ast, Root, [store |-> store, log |-> <<>>], 0)
       IN /\ store' = Release(r.st.store)
          /\ last' = Record("eval", Root, <<>>, ast, NoText, r.status, r.val,
                            r.st.log, store)
          /\ running' = (r.status \in {"ok", "err"})
    /\ steps' = steps + 1
    /\ UNCHANGED build

\* print: printer::pr_str(exp, true)
print(exp) == pr_str(exp, TRUE)

\* rep!(input, env) and the match on its result in the REPL loop of main:
\* read, eval in the root environment, print the result to stdout, or the
\* error to stderr unless it is "Empty input".
Rep(input) ==
    /\ running
    /\ steps < MaxSteps
    /\ LET ast == read_str(input)
       IN IF ~ast.ok
          THEN /\ store' = store
               /\ last' = Record("rep", Root, <<>>, MalNil, input, "read_err",
                                 ErrV(ast.err, MalNil),
                                 IF ast.err = "Empty input" THEN <<>>
                                 ELSE <<Ev("stderr", 0, 0, 0, <<>>, ErrV(ast.err, MalNil))>>,
                                 store)
               /\ running' = TRUE
          ELSE LET r == Eval(ast.val, Root, [store |-> store, log |-> <<>>], 0)
                   out == IF r.status = "ok"
                          THEN <<Ev("stdout", 0, 0, 0, <<>>, MalString(print(r.val)))>>
                          ELSE IF r.status = "err"
                               THEN <<Ev("stderr", 0, 0, 0, <<>>, r.val)>>
                               ELSE <<>>
               IN /\ store' = Release(r.st.store)
                  /\ last' = Record("rep", Root, <<>>, ast.val, input, r.status, r.val,
                                    r.st.log \o out, store)
                  /\ running' = (r.status \in {"ok", "err"})
    /\ steps' = steps + 1
    /\ UNCHANGED build

Next ==
    \/ \E ast \in Forms : EvalForm(ast)
    \/ \E input \in {DefText, SymText} : Rep(input)

Spec == Init /\ [][Next]_vars

\* The if forms, with x bound or not.
NextIf ==
    \/ \E ast \in IfForms : EvalForm(ast)
    \/ \E i \in {0, 1} : EvalForm(DefX(i))

SpecIf == Init /\ [][NextIf]_vars

\* Applications of fn* closures to fewer, as many and more arguments than
\* parameters.
NextArity == \E ast \in ArityForms : EvalForm(ast)

SpecArity == Init /\ [][NextArity]_vars

\* Lines of input through the read-eval-print pipeline.
NextRep == \E input \in Texts : Rep(input)

SpecRep == Init /\ [][NextRep]_vars

\* ------------------------------------------ the environment used directly

ApiNames == {n_x, n_y}
ApiValues == {Num(1), Num(2)}

\* Rc::new(RefCell::new(Env::new(Some(outer))))
ApiNew(outer) ==
    /\ steps < MaxSteps + 1
    /\ Len(store) < MaxScopes + 1
    /\ store' = EnvAlloc(store, outer)
    /\ last' = Record("new", NewEnvId(store), <<>>, MalNil, NoText, "ok", MalNil,
                      <<>>, store)
    /\ steps' = steps + 1
    /\ UNCHANGED <<running, build>>

\* env.borrow_mut().set(key, val)
ApiSet(env, key, val) ==
    /\ steps < MaxSteps + 1
    /\ store' = EnvSet(store, env, key, val)
    /\ last' = Record("set", env, key, MalNil, NoText, "ok", val, <<>>, store)
    /\ steps' = steps + 1
    /\ UNCHANGED <<running, build>>

\* env.borrow().get(key)
ApiGet(env, key) ==
    /\ steps < MaxSteps + 1
    /\ store' = store
    /\ last' = Record("get", env, key, MalNil, NoText, "ok", EnvGet(store, env, key),
                      <<>>, store)
    /\ steps' = steps + 1
    /\ UNCHANGED <<running, build>>

\* eval(&MalType::Symbol(key), &env)
ApiEvalSymbol(env, key) ==
    /\ steps < MaxSteps + 1
    /\ LET r == Eval(Sym(key), env, [store |-> store, log |-> <<>>], 0)
       IN /\ store' = r.st.store
          /\ last' = Record("evalsym", env, key, Sym(key), NoText, r.status, r.val,
                            r.st.log, store)
    /\ steps' = steps + 1
    /\ UNCHANGED <<running, build>>

NextEnv ==
    \/ \E outer \in 1..Len(store) : ApiNew(outer)
    \/ \E env \in 1..Len(store), key \in ApiNames, val \in ApiValues : ApiSet(env, key, val)
    \/ \E env \in 1..Len(store), key \in ApiNames : ApiGet(env, key)
    \/ \E env \in 1..Len(store), key \in ApiNames : ApiEvalSymbol(env, key)

SpecEnv == Init /\ [][NextEnv]_vars

\* ============================================================== properties

RECURSIVE Chain(_, _)
\* The outer-chain of a scope, the scope itself first.
Chain(st, env) ==
    IF st[env].outer = 0 THEN <<env>> ELSE <<env>> \o Chain(st, st[env].outer)

\* The positions of the chain whose scope binds key itself.
Binders(st, env, key) ==
    {i \in 1..Len(Chain(st, env)) : key \in DOMAIN st[Chain(st, env)[i]].data}

\* The value of key in the nearest scope of the chain that binds it.
Nearest(st, env, key) ==
    LET b == Binders(st, env, key)
    IN IF b = {} THEN NoneV
       ELSE st[Chain(st, env)[CHOOSE i \in b : \A j \in b : i <= j]].data[key]

NotFound(name) == ErrV("Symbol '{}' not found", MalSymbol(name))

\* C5: Env::get(name) on scope S returns the binding of the nearest scope of
\* S's outer-chain that binds name and nothing exactly when no scope of the
\* chain binds it, whatever scopes off the chain bind; evaluating such a
\* Symbol fails with symbol-not-found; neither changes any scope.
C5_GetNearestBinding ==
    /\ last.op = "get" =>
          /\ last.val = Nearest(last.pre, last.env, last.name)
          /\ (last.val = NoneV) = (Binders(last.pre, last.env, last.name) = {})
          /\ store = last.pre
    /\ last.op = "evalsym" =>
          /\ store = last.pre
          /\ IF Binders(last.pre, last.env, last.name) = {}
             THEN last.status = "err" /\ last.val = NotFound(last.name)
             ELSE last.status = "ok"
                  /\ last.val = Nearest(last.pre, last.env, last.name)

\* A Symbol is not found although a sibling scope binds its name.
C5_Witness ==
    /\ last.op = "evalsym"
    /\ last.status = "err"
    /\ \E s \in 1..Len(store) :
          /\ s # last.env
          /\ store[s].outer = store[last.env].outer
          /\ last.name \in DOMAIN store[s].data

\* C6: Env::set(name, value) on scope S inserts or overwrites name in the own
\* bindings of S only and returns value: every other scope, the outer of S
\* and every other name of S are unchanged, and a lookup of name from any
\* outer scope of S returns what it returned before.
C6_SetOwnScopeOnly ==
    last.op = "set" =>
       LET sc == last.env
       IN /\ Len(store) = Len(last.pre)
          /\ \A s \in 1..Len(store) : s # sc => store[s] = last.pre[s]
          /\ store[sc].outer = last.pre[sc].outer
          /\ DOMAIN store[sc].data = DOMAIN last.pre[sc].data \cup {last.name}
          /\ store[sc].data[last.name] = last.val
          /\ \A n \in DOMAIN last.pre[sc].data :
                n # last.name => store[sc].data[n] = last.pre[sc].data[n]
          /\ \A i \in 2..Len(Chain(store, sc)) :
                EnvGet(store, Chain(store, sc)[i], last.name)
                   = EnvGet(last.pre, Chain(store, sc)[i], last.name)

\* A set in an inner scope of a name an outer scope binds to another value.
C6_Witness ==
    /\ last.op = "set"
    /\ last.env # Root
    /\ EnvGet(store, store[last.env].outer, last.name) \notin {NoneV, last.val}
    /\ EnvGet(store, last.env, last.name) = last.val

\* ----------------------------------------------------------- the trace
\* last.log is the trace of the last top-level evaluation: an "eval" event
\* when eval is entered at depth d, a "ret" (or "unwind", for a panic) event
\* at the same depth when it returns, and "new" and "set" events at depth d
\* for the scopes created and names bound by the form evaluated at depth d.

Failed(e) == e.k = "unwind" \/ (e.k = "ret" /\ Tag(e.x) = "Err")

\* The index of the event that ends the evaluation entered at index i.
RetOf(log, i) ==
    LET ends == {j \in (i + 1)..Len(log) :
                    log[j].k \in {"ret", "unwind"} /\ log[j].d = log[i].d}
    IN CHOOSE j \in ends : \A m \in ends : j <= m

\* What the form entered at index i did itself, in order: the evaluations it
\* started and their returns, the scopes it created and the names it bound.
Own(log, i) ==
    LET d == log[i].d
    IN SelectSeq(SubSeq(log, i + 1, RetOf(log, i) - 1),
                 LAMBDA e : \/ e.d = d + 1 /\ e.k \in {"eval", "ret", "unwind"}
                            \/ e.d = d /\ e.k \in {"new", "set"})

\* ast is a List of one of the lengths lens whose head is the Symbol name.
IsForm(ast, name, lens) ==
    /\ Tag(ast) = "List"
    /\ Len(Payload(ast)) \in lens
    /\ Payload(ast)[1] = MalSymbol(name)

\* The indices of the trace where a form (name ...) is entered.
Entered(log, name, lens) ==
    {i \in 1..Len(log) : log[i].k = "eval" /\ IsForm(log[i].x, name, lens)}

EnterEv(d, env, ast) == Ev("eval", d, env, 0, <<>>, ast)

\* The outcome of a top-level evaluation that looks name up from scope env
\* of the store st.
Resolves(st, env, name) ==
    IF Nearest(st, env, name) = NoneV
    THEN last.status = "err" /\ last.val = NotFound(name)
    ELSE last.status = "ok" /\ last.val = Nearest(st, env, name)

TopLevel == last.op \in {"eval", "rep"}

\* ------------------------------------------------------------- C1, C2

\* C1: reading a text whose parameter list is p1 .. pk & r and applying the
\* function to n >= k arguments binds each pi to argument i and r to the List
\* of the arguments k+1..n: ((fn* (a & rest) (list a rest)) 1 2 3) yields
\* (1 (2 3)), ((fn* (a b & r) (list a b r)) 1 2 3) yields (1 2 (3)) and
\* ((fn* (& r) r) 1 2) yields (1 2).
C1_TextVariadic ==
    last.op = "rep" =>
       /\ last.text = VariadicText =>
             /\ last.status = "ok"
             /\ last.val = Lst(<<Num(1), Lst(<<Num(2), Num(3)>>)>>)
       /\ last.text = VariadicText2 =>
             /\ last.status = "ok"
             /\ last.val = Lst(<<Num(1), Num(2), Lst(<<Num(3)>>)>>)
       /\ last.text = VariadicText0 =>
             /\ last.status = "ok"
             /\ last.val = Lst(<<Num(1), Num(2)>>)

\* The number of fixed parameters of a parameter sequence.
FixedLen(params) == IF IsVariadic(params) THEN Len(params) - 2 ELSE Len(params)

\* C2: applying a Function to fewer arguments than it has fixed parameters
\* never fails or aborts: the fixed parameters without an argument are bound
\* to Nil, the rest parameter of a variadic function to the empty List, and
\* the body is evaluated.
C2_MissingArgsBindNil ==
    \A params \in ParamLists : \A n \in 0..MaxArgs :
       (last.op = "eval" /\ last.ast = CallWith(params, n) /\ n < FixedLen(params)) =>
          /\ last.status = "ok"
          /\ last.val =
                Lst([i \in 1..FixedLen(params) |-> IF i <= n THEN Num(i) ELSE MalNil]
                    \o (IF IsVariadic(params) THEN <<Lst(<<>>)>> ELSE <<>>))

\* ------------------------------------------------------------- C3, C4

\* The closure that (def! f (fn* () x)) binds in the root environment.
FBound(st) == n_f \in DOMAIN st[Root].data
GBound(st) == n_g \in DOMAIN st[Root].data
HBound(st) == n_h \in DOMAIN st[Root].data

\* C3: every application of a Function creates a scope whose outer is the
\* scope the Function captured, which is the scope fn* was evaluated in, never
\* the scope of the caller; so the free x of f, called from inside a let* or a
\* function whose scope binds x to 5 or 9, resolves through the captured chain.
C3_ClosureIsolation ==
    TopLevel =>
       /\ \A i \in 1..Len(last.log) :
             (last.log[i].k = "new" /\ Tag(last.log[i].x) = "Function") =>
                last.log[i].outer = Payload(last.log[i].x).env
       /\ \A i \in Entered(last.log, N_fn, {3}) :
             ~Failed(last.log[RetOf(last.log, i)]) =>
                /\ Tag(last.log[RetOf(last.log, i)].x) = "Function"
                /\ Payload(last.log[RetOf(last.log, i)].x).env = last.log[i].env
       /\ (last.ast \in {ShadowCall(n_f), FnShadowCall} /\ FBound(last.pre)) =>
             Resolves(last.pre, Root, n_x)
       /\ (last.ast = ShadowCall(n_h) /\ HBound(last.pre)) =>
             last.status = "ok" /\ last.val = Num(7)

\* f is called from inside a let* that binds x to 5 and returns the x of the
\* scope it captured.
C3_Witness ==
    /\ last.op = "eval"
    /\ last.ast = ShadowCall(n_f)
    /\ last.status = "ok"
    /\ last.val # Num(5)
    /\ \E i \in 1..Len(last.log) :
          /\ last.log[i].k = "new"
          /\ Tag(last.log[i].x) = "Function"
          /\ last.log[i].outer = Root

\* C4: scopes are shared, not copied: a call of the closure f, which captured
\* the root scope, observes the binding of x the root scope has at the time of
\* the call, whenever x was bound or rebound; a closure made in a let* scope
\* observes a def! made in that scope after it; and a function bound with def!
\* calls itself by name.
C4_SharedScopes ==
    TopLevel =>
       /\ (last.ast = CallF /\ FBound(last.pre)) => Resolves(last.pre, Root, n_x)
       /\ (last.ast = CallG /\ GBound(last.pre)) =>
             last.status = "ok" /\ last.val = Num(0)
       /\ last.ast = LetShare => last.status = "ok" /\ last.val = Num(2)

\* g, bound to a closure created before g was bound, has called itself.
C4_Witness ==
    /\ last.op = "eval"
    /\ last.ast = CallG
    /\ last.status = "ok"
    /\ Cardinality({i \in 1..Len(last.log) :
                       last.log[i].k = "new" /\ Tag(last.log[i].x) = "Function"}) = 3

\* ------------------------------------------------------------------ C7

\* What one evaluation of (def! s e), entered at index i, did.
DefShape(log, i) ==
    LET e == log[i]
        items == Payload(e.x)
        own == Own(log, i)
        ret == log[RetOf(log, i)]
    IN /\ Len(own) >= 2
       /\ own[1] = EnterEv(e.d + 1, e.env, items[3])
       /\ own[2].k \in {"ret", "unwind"}
       /\ ret.x = own[2].x
       /\ IF Failed(own[2])
          THEN Len(own) = 2 /\ Failed(ret)
          ELSE /\ Len(own) = 3
               /\ own[3] = Ev("set", e.d, e.env, 0, Payload(items[2]), own[2].x)
               /\ ret.k = "ret"

IsDef(ast) == IsForm(ast, N_def, {3}) /\ Tag(Payload(ast)[2]) = "Symbol"

DefState ==
    TopLevel =>
       /\ \A i \in Entered(last.log, N_def, {3}) :
             Tag(Payload(last.log[i].x)[2]) = "Symbol" => DefShape(last.log, i)
       /\ (IsDef(last.ast) /\ last.status = "ok") =>
             LET s == Payload(Payload(last.ast)[2])
             IN /\ EnvGet(store, Root, s) = last.val
                /\ store[Root].outer = last.pre[Root].outer
                /\ DOMAIN store[Root].data = DOMAIN last.pre[Root].data \cup {s}
                /\ \A n \in DOMAIN last.pre[Root].data :
                      n # s => store[Root].data[n] = last.pre[Root].data[n]

\* A top-level def! of s that returned v is followed by an evaluation of s.
DefThenSymbol ==
    (TopLevel /\ IsDef(last.ast) /\ last.status = "ok"
       /\ last'.ast = Payload(last.ast)[2])
    => (last'.status = "ok" /\ last'.val = last.val)

\* C7: evaluating (def! s e) in E evaluates e in E and, when that yields v,
\* binds s to v in E itself, creating no scope and changing no other name,
\* and returns v; a following top-level evaluation of s returns v.
C7_DefBindsInCurrentEnv == [][DefState' /\ DefThenSymbol]_vars

\* A def! has overwritten an earlier binding of x in the root environment.
C7_Witness ==
    /\ TopLevel
    /\ last.ast = DefX(2)
    /\ last.status = "ok"
    /\ EnvGet(last.pre, Root, n_x) \notin {NoneV, Num(2)}
    /\ EnvGet(store, Root, n_x) = Num(2)

\* ------------------------------------------------------------------ C8

WellFormedLet(ast) ==
    /\ IsForm(ast, N_let, {3})
    /\ Tag(Payload(ast)[2]) \in {"List", "Vector"}
    /\ Len(Payload(Payload(ast)[2])) % 2 = 0
    /\ \A p \in 1..Len(Payload(Payload(ast)[2])) :
          p % 2 = 1 => Tag(Payload(Payload(ast)[2])[p]) = "Symbol"

\* What one evaluation of (let* (s1 e1 .. sn en) body), entered at index i,
\* did: a new scope C, then for each binding in order the evaluation of the
\* initializer in C followed by the binding of its name in C, up to the first
\* initializer that fails, and then the evaluation of body in C.
LetShape(log, i) ==
    LET e == log[i]
        bindings == Payload(Payload(e.x)[2])
        body == Payload(e.x)[3]
        n == Len(bindings) \div 2
        own == Own(log, i)
        ret == log[RetOf(log, i)]
        C == own[1].env
        k == Cardinality({m \in 1..Len(own) : own[m].k = "set"})
    IN /\ Len(own) = 3 * k + 3
       /\ own[1] = Ev("new", e.d, C, e.env, <<>>, MalNil)
       /\ C > Len(last.pre)
       /\ \A m \in 1..i : log[m].env # C
       /\ \A m \in 2..Len(own) : own[m].k # "new"
       /\ k <= n
       /\ \A p \in 1..k :
             /\ own[3 * p - 1] = EnterEv(e.d + 1, C, bindings[2 * p])
             /\ own[3 * p].k = "ret" /\ ~Failed(own[3 * p])
             /\ own[3 * p + 1] = Ev("set", e.d, C, 0, Payload(bindings[2 * p - 1]),
                                    own[3 * p].x)
       /\ own[3 * k + 2] =
             EnterEv(e.d + 1, C, IF k = n THEN body ELSE bindings[2 * k + 2])
       /\ own[3 * k + 3].k \in {"ret", "unwind"}
       /\ k < n => Failed(own[3 * k + 3])
       /\ ret.x = own[3 * k + 3].x
       /\ Failed(ret) = Failed(own[3 * k + 3])

IfShape(log, i) ==
    LET ev == log[i]
        items == Payload(ev.x)
        own == Own(log, i)
        ret == log[RetOf(log, i)]
    IN /\ Len(own) >= 2
       /\ own[1] = EnterEv(ev.d + 1, ev.env, items[2])
       /\ own[2].k \in {"ret", "unwind"}
       /\ IF Failed(own[2])
          THEN Len(own) = 2 /\ ret.x = own[2].x /\ Failed(ret)
          ELSE LET falsy == own[2].x \in {MalBool(FALSE), MalNil}
               IN IF falsy /\ Len(items) = 3
                  THEN Len(own) = 2 /\ ret.k = "ret" /\ ret.x = MalNil
                  ELSE /\ Len(own) = 4
                       /\ own[3] = EnterEv(ev.d + 1, ev.env,
                                           IF falsy THEN items[4] ELSE items[3])
                       /\ own[4].k \in {"ret", "unwind"}
                       /\ ret.x = own[4].x
                       /\ Failed(ret) = Failed(own[4])

\* C9: (if c t) and (if c t e) evaluate c once; when its value is neither
\* Bool(false) nor Nil the result is the value of t and e is not evaluated;
\* otherwise the result is the value of e, or Nil without e, and t is not
\* evaluated. Number 0, the empty String, the empty List and the empty Vector
\* are truthy.
C9_IfTruthiness ==
    TopLevel =>
       /\ \A i \in Entered(last.log, N_if, {3, 4}) : IfShape(last.log, i)
       /\ \A c \in {Num(0), MalString(<<>>), Lst(<<>>), MalVector(<<>>)} :
             \A e \in BOOLEAN :
                last.ast = IfForm(c, e) => last.status = "ok" /\ last.val = Num(1)
       /\ \A c \in {Sym(N_nil), Sym(N_false), MalNil} :
             /\ last.ast = IfForm(c, TRUE) => last.status = "ok" /\ last.val = Num(2)
             /\ last.ast = IfForm(c, FALSE) => last.status = "ok" /\ last.val = MalNil

\* The empty List as a condition has selected the first branch.
C9_Witness ==
    /\ last.op = "eval"
    /\ last.ast = IfForm(Lst(<<>>), TRUE)
    /\ last.status = "ok"
    /\ last.val = Num(1)
    /\ Len(Own(last.log, 1)) = 4

\* ----------------------------------------------------------------- C10

\* What one evaluation of (do e1 .. en), entered at index i, did: e1 .. ek in
\* order, where ek is the first to fail or k = n.
DoShape(log, i) ==
    LET ev == log[i]
        items == Payload(ev.x)
        n == Len(items) - 1
        own == Own(log, i)
        ret == log[RetOf(log, i)]
        k == Len(own) \div 2
    IN /\ Len(own) = 2 * k
       /\ 1 <= k /\ k <= n
       /\ \A p \in 1..k :
             /\ own[2 * p - 1] = EnterEv(ev.d + 1, ev.env, items[p + 1])
             /\ own[2 * p].k \in {"ret", "unwind"}
             /\ p < k => ~Failed(own[2 * p])
       /\ k < n => Failed(own[2 * k])
       /\ ret.x = own[2 * k].x
       /\ Failed(ret) = Failed(own[2 * k])

\* C10: (do e1 .. en) evaluates e1 .. en in that order in the current
\* environment and returns the value of en; when ei is the first operand to
\* fail, the form fails with the error of ei, e(i+1) .. en are not evaluated
\* and the bindings made by e1 .. e(i-1) stay.
C10_DoInOrder ==
    TopLevel =>
       /\ \A i \in 1..Len(last.log) :
             (last.log[i].k = "eval" /\ Tag(last.log[i].x) = "List"
                /\ Len(Payload(last.log[i].x)) >= 2
                /\ Payload(last.log[i].x)[1] = MalSymbol(N_do)) =>
                DoShape(last.log, i)
       /\ last.ast = DoPure => last.status = "ok" /\ last.val = Num(3)
       /\ last.ast = DoDefs =>
             /\ last.status = "ok" /\ last.val = Num(2)
             /\ EnvGet(store, Root, n_x) = Num(2)
       /\ last.ast = DoFail =>
             /\ last.status = "err" /\ last.val = NotFound(n_zz)
             /\ EnvGet(store, Root, n_x) = Num(1)
       /\ last.ast = DoFailFirst =>
             /\ last.status = "err" /\ last.val = NotFound(n_zz)
             /\ store[Root] = last.pre[Root]

\* A do has failed at its second operand after its first rebound x.
C10_Witness ==
    /\ last.op = "eval"
    /\ last.ast = DoFail
    /\ last.status = "err"
    /\ EnvGet(last.pre, Root, n_x) = Num(2)
    /\ EnvGet(store, Root, n_x) = Num(1)

\* ----------------------------------------------------------------- C11

\* The largest number of parameter forms of the fn* forms below.
MaxParams == 3

\* The parameter forms: two names, the marker & and a form that is no Symbol.
ParamItems == {Sym(n_a), Sym(n_r), Sym(N_amp), Num(1)}

RECURSIVE SeqsUpTo(_, _)
\* The sequences over S of length 0..n.
SeqsUpTo(S, n) ==
    IF n = 0 THEN {<<>>}
    ELSE LET shorter == SeqsUpTo(S, n - 1)
         IN shorter \cup {Append(q, x) : q \in {t \in shorter : Len(t) = n - 1}, x \in S}

\* (fn* params zz): the body fails if it is ever evaluated.
FnForm(params) == Lst(<<Sym(N_fn), Lst(params), Sym(n_zz)>>)

FnForms == {FnForm(params) : params \in SeqsUpTo(ParamItems, MaxParams)}

NextFn == \E ast \in FnForms : EvalForm(ast)

SpecFn == Init /\ [][NextFn]_vars

\* The positions of params that hold the Symbol &.
AmpAt(params) == {i \in 1..Len(params) : params[i] = Sym(N_amp)}

\* Every parameter is a Symbol, and the first & is followed by exactly one
\* Symbol, which ends the sequence.
ValidParams(params) ==
    /\ \A i \in 1..Len(params) : Tag(params[i]) = "Symbol"
    /\ AmpAt(params) # {} =>
          (CHOOSE i \in AmpAt(params) : \A j \in AmpAt(params) : i <= j)
             = Len(params) - 1

\* C11: (fn* params body) fails, producing no Function, whenever params holds
\* a form that is no Symbol or an & that is not followed by exactly one
\* Symbol that ends the sequence; otherwise it returns a Function and body
\* is not evaluated.
C11_FnParamsValidated ==
    \A params \in SeqsUpTo(ParamItems, MaxParams) :
       (last.op = "eval" /\ last.ast = FnForm(params)) =>
          IF ValidParams(params)
          THEN /\ last.status = "ok"
               /\ Tag(last.val) = "Function"
               /\ Payload(last.val).body = Sym(n_zz)
               /\ Own(last.log, 1) = <<>>
          ELSE last.status = "err"

\* ----------------------------------------------------------------- C12

ArithOps == {<<"+">>, <<"-">>, <<"*">>, <<"/">>}

\* Number operands: small ones and the ends of the range.
ArithOperands == {IntMin, -1, 0, 3, IntMax}

\* (+ 2 3), (- 10 4), (* 3 3), (/ 7 2)
ArithExamples ==
    {<<<<"+">>, 2, 3>>, <<<<"-">>, 10, 4>>, <<<<"*">>, 3, 3>>, <<<<"/">>, 7, 2>>}

\* The operator and operand pairs applied below.
ArithCases ==
    {<<op, a, b>> : op \in ArithOps, a \in ArithOperands, b \in ArithOperands}
    \cup ArithExamples

\* (op a1 .. an)
OpForm(op, args) == Lst(<<Sym(op)>> \o args)

\* Operand sequences that are not two Numbers: another count, or an operand
\* that is no Number.
BadOperands ==
    {<<>>, <<Num(1)>>, <<Num(1), Num(2), Num(3)>>,
     <<MalString(<<"1">>), Num(2)>>, <<Num(1), MalNil>>,
     <<MalKeyword(<<"k">>), Num(0)>>, <<Num(1), Lst(<<>>)>>,
     <<Sym(N_true), Sym(N_false)>>}

ArithForms ==
    {OpForm(c[1], <<Num(c[2]), Num(c[3])>>) : c \in ArithCases}
    \cup {OpForm(op, args) : op \in ArithOps, args \in BadOperands}

NextArith == \E ast \in ArithForms : EvalForm(ast)

SpecArith == Init /\ [][NextArith]_vars

\* The mathematical sum, difference, product and truncated quotient.
Exact(op, a, b) ==
    CASE op = <<"+">> -> a + b
      [] op = <<"-">> -> a - b
      [] op = <<"*">> -> a * b
      [] op = <<"/">> -> TruncDiv(a, b)

DivByZero == ErrV("division by zero", MalNil)

\* C12: +, -, *, / applied to two Numbers return the Number sum, difference,
\* product and integer quotient; / with divisor 0 fails with division by
\* zero; with another operand count or an operand that is no Number each of
\* them fails with an error other than division by zero.
C12_ArithmeticTwoNumbers ==
    last.op = "eval" =>
       /\ \A c \in ArithCases :
             last.ast = OpForm(c[1], <<Num(c[2]), Num(c[3])>>) =>
                IF c[1] = <<"/">> /\ c[3] = 0
                THEN last.status = "err" /\ last.val = DivByZero
                ELSE last.status = "ok"
                     /\ last.val = MalNumber(Exact(c[1], c[2], c[3]))
       /\ \A op \in ArithOps : \A args \in BadOperands :
             last.ast = OpForm(op, args) =>
                last.status = "err" /\ last.val # DivByZero

\* ------------------------------------------------------------ C13, C14

N_eq == <<"=">>

\* (= x y)
EqForm(x, y) == Lst(<<Sym(N_eq), x, y>>)

\* (list e1 .. en)
ListOf(items) == Lst(<<Sym(N_list)>> \o items)

\* Element sequences: empty, one and two Numbers in both orders, nested.
EqItems ==
    {<<>>, <<Num(1)>>, <<Num(1), Num(2)>>, <<Num(2), Num(1)>>,
     <<MalVector(<<Num(1)>>)>>}

\* Each element sequence as a List and as a Vector.
SeqExprs == {ListOf(items) : items \in EqItems} \cup {MalVector(items) : items \in EqItems}

\* (let* (f (fn* () 1) g (fn* () 1)) (= x y)): x and y may hold f and g.
FnEqForm(x, y) ==
    Lst(<<Sym(N_let),
          Lst(<<Sym(n_f), Lst(<<Sym(N_fn), Lst(<<>>), Num(1)>>),
                Sym(n_g), Lst(<<Sym(N_fn), Lst(<<>>), Num(1)>>)>>),
          EqForm(x, y)>>)

MapOfF == MalMap(<<<<MalKeyword(<<"k">>), Sym(n_f)>>>>)

\* The operand pairs of = that hold a Function.
FnEqPairs ==
    {<<Sym(n_f), Sym(n_f)>>, <<Sym(n_f), Sym(n_g)>>,
     <<ListOf(<<Sym(n_f)>>), ListOf(<<Sym(n_f)>>)>>,
     <<MalVector(<<Sym(n_f)>>), MalVector(<<Sym(n_f)>>)>>,
     <<MalVector(<<Num(1), Sym(n_f)>>), ListOf(<<Num(1), Sym(n_f)>>)>>,
     <<MapOfF, MapOfF>>,
     <<ListOf(<<MalVector(<<Sym(n_f)>>)>>), ListOf(<<MalVector(<<Sym(n_f)>>)>>)>>,
     <<Sym(n_f), Num(1)>>, <<MalNil, Sym(n_f)>>, <<Sym(n_f), ListOf(<<>>)>>}

EqForms ==
    {EqForm(x, y) : x \in SeqExprs, y \in SeqExprs}
    \cup {FnEqForm(q[1], q[2]) : q \in FnEqPairs}

\* (= {:a 1 :b 2} {:b 2 :a 1})
MapEqSwapText ==
    <<"(", "=", " ", "{", ":", "a", " ", "1", " ", ":", "b", " ", "2", "}", " ", "{",
      ":", "b", " ", "2", " ", ":", "a", " ", "1", "}", ")">>

\* (= {:a 1 :b 2} {:a 1 :b 2})
MapEqSameText ==
    <<"(", "=", " ", "{", ":", "a", " ", "1", " ", ":", "b", " ", "2", "}", " ", "{",
      ":", "a", " ", "1", " ", ":", "b", " ", "2", "}", ")">>

\* (= {:a 1 :b 2} {:a 1 :b 3})
MapEqValueText ==
    <<"(", "=", " ", "{", ":", "a", " ", "1", " ", ":", "b", " ", "2", "}", " ", "{",
      ":", "a", " ", "1", " ", ":", "b", " ", "3", "}", ")">>

\* (= {:a 1 :b 2} {:a 1})
MapEqSizeText ==
    <<"(", "=", " ", "{", ":", "a", " ", "1", " ", ":", "b", " ", "2", "}", " ", "{",
      ":", "a", " ", "1", "}", ")">>

\* (= {} {})
MapEqEmptyText ==
    <<"(", "=", " ", "{", "}", " ", "{", "}", ")">>

MapEqTexts ==
    {MapEqSwapText, MapEqSameText, MapEqValueText, MapEqSizeText, MapEqEmptyText}

NextEq ==
    \/ \E ast \in EqForms : EvalForm(ast)
    \/ \E input \in MapEqTexts : Rep(input)

SpecEq == Init /\ [][NextEq]_vars

RECURSIVE HasFn(_)
\* v is a Function or holds one at any depth.
HasFn(v) ==
    CASE Tag(v) = "Function" -> TRUE
      [] Tag(v) \in {"List", "Vector"} ->
            \E i \in 1..Len(Payload(v)) : HasFn(Payload(v)[i])
      [] Tag(v) = "Map" ->
            \E i \in 1..Len(Payload(v)) :
               HasFn(Payload(v)[i][1]) \/ HasFn(Payload(v)[i][2])
      [] OTHER -> FALSE

RECURSIVE HasMap(_)
\* v is a Map or holds one at any depth of Lists and Vectors.
HasMap(v) ==
    CASE Tag(v) = "Map" -> TRUE
      [] Tag(v) \in {"List", "Vector"} ->
            \E i \in 1..Len(Payload(v)) : HasMap(Payload(v)[i])
      [] OTHER -> FALSE

RECURSIVE AsLists(_)
\* v with every Vector, at any depth of Lists and Vectors, taken as a List.
AsLists(v) ==
    IF Tag(v) \in {"List", "Vector"}
    THEN MalList([i \in 1..Len(Payload(v)) |-> AsLists(Payload(v)[i])])
    ELSE v

\* The applications (= a b) of the trace whose three sub-forms evaluated.
EqApplied(log) ==
    {i \in Entered(log, N_eq, {3}) :
        /\ Len(Own(log, i)) = 6
        /\ \A m \in {2, 4, 6} : Own(log, i)[m].k = "ret" /\ ~Failed(Own(log, i)[m])}

EqLeft(log, i) == Own(log, i)[4].x
EqRight(log, i) == Own(log, i)[6].x
EqResult(log, i) == log[RetOf(log, i)].x

\* C13: under =, a List and a Vector that hold element-wise equal sequences
\* are equal in both argument orders, and a Function is equal to nothing, not
\* even to itself, so that every List, Vector or Map that holds a Function is
\* unequal to itself.
C13_StructuralEquality ==
    TopLevel =>
       /\ \A i \in EqApplied(last.log) :
             LET a == EqLeft(last.log, i)
                 b == EqRight(last.log, i)
             IN IF HasFn(a) \/ HasFn(b)
                THEN EqResult(last.log, i) = MalBool(FALSE)
                ELSE (~HasMap(a) /\ ~HasMap(b)) =>
                        EqResult(last.log, i) = MalBool(AsLists(a) = AsLists(b))
       /\ \A x \in EqItems : \A y \in EqItems :
             /\ last.ast = EqForm(ListOf(x), MalVector(y)) =>
                   last.status = "ok" /\ last.val = MalBool(x = y)
             /\ last.ast = EqForm(MalVector(x), ListOf(y)) =>
                   last.status = "ok" /\ last.val = MalBool(x = y)
       /\ \A q \in FnEqPairs :
             last.ast = FnEqForm(q[1], q[2]) =>
                last.status = "ok" /\ last.val = MalBool(FALSE)

\* A Vector that holds a Function has been compared with itself.
C13_Witness ==
    /\ last.op = "eval"
    /\ last.ast = FnEqForm(MalVector(<<Sym(n_f)>>), MalVector(<<Sym(n_f)>>))
    /\ last.val = MalBool(FALSE)
    /\ \E i \in EqApplied(last.log) :
          /\ EqLeft(last.log, i) = EqRight(last.log, i)
          /\ Tag(EqLeft(last.log, i)) = "Vector"
          /\ HasFn(EqLeft(last.log, i))

\* The pairs of the Maps a and b correspond one to one.
SamePairs(a, b) ==
    /\ Len(Payload(a)) = Len(Payload(b))
    /\ \E f \in [1..Len(Payload(a)) -> 1..Len(Payload(a))] :
          /\ \A i, j \in 1..Len(Payload(a)) : f[i] = f[j] => i = j
          /\ \A i \in 1..Len(Payload(a)) : Payload(a)[i] = Payload(b)[f[i]]

\* C14: two Maps are equal under = exactly when they hold the same (key,
\* value) pairs in some correspondence, whatever the order of the pairs: the
\* Maps read from {:a 1 :b 2} and {:b 2 :a 1} are equal.
C14_MapEqualityUnordered ==
    last.op = "rep" =>
       /\ last.text = MapEqSwapText =>
             last.status = "ok" /\ last.val = MalBool(TRUE)
       /\ \A i \in EqApplied(last.log) :
             (Tag(EqLeft(last.log, i)) = "Map" /\ Tag(EqRight(last.log, i)) = "Map") =>
                EqResult(last.log, i)
                   = MalBool(SamePairs(EqLeft(last.log, i), EqRight(last.log, i)))

\* ----------------------------------------------------------------- C15

\* a string with an escaped backslash, quote and newline
RtEscapesText ==
    <<"\"", "a", "\\", "\\", "b", "\\", "\"", "c", "\\", "n", "d", "\"">>

\* a string holding a backslash and the letter n
RtBackslashNText ==
    <<"\"", "\\", "\\", "n", "\"">>

\* a string holding a newline character written as such
RtRawNewlineText ==
    <<"\"", "x", "\n", "y", "\"">>

\* ""
RtEmptyStringText ==
    <<"\"", "\"">>

\* "\""
RtQuoteOnlyText ==
    <<"\"", "\\", "\"", "\"">>

\* -7
RtNegativeText ==
    <<"-", "7">>

\* -128, the least Number at the width of NumBits
RtLeastText ==
    <<"-", "1", "2", "8">>

\* 120
RtNumberText ==
    <<"1", "2", "0">>

\* a-b?
RtSymbolText ==
    <<"a", "-", "b", "?">>

\* nil
RtNilText ==
    <<"n", "i", "l">>

\* true
RtTrueText ==
    <<"t", "r", "u", "e">>

\* false
RtFalseText ==
    <<"f", "a", "l", "s", "e">>

\* :kw
RtKeywordText ==
    <<":", "k", "w">>

\* (1 "a" :k nil)
RtListText ==
    <<"(", "1", " ", "\"", "a", "\"", " ", ":", "k", " ", "n", "i", "l", ")">>

\* [x [true] {} ()]
RtVectorText ==
    <<"[", "x", " ", "[", "t", "r", "u", "e", "]", " ", "{", "}", " ", "(", ")", "]">>

\* {:a (1 -2) "k\\" [false]}
RtMapText ==
    <<"{", ":", "a", " ", "(", "1", " ", "-", "2", ")", " ", "\"", "k", "\\", "\\",
      "\"", " ", "[", "f", "a", "l", "s", "e", "]", "}">>

\*  ( 1,2 , [ ] ) ; c
RtSpacedText ==
    <<" ", "(", " ", "1", ",", "2", " ", ",", " ", "[", " ", "]", " ", ")", " ", ";",
      " ", "c">>

RoundTexts ==
    {RtEscapesText, RtBackslashNText, RtRawNewlineText, RtEmptyStringText,
     RtQuoteOnlyText, RtNegativeText, RtNumberText, RtSymbolText, RtNilText,
     RtTrueText, RtFalseText, RtKeywordText, RtListText, RtVectorText, RtMapText,
     RtSpacedText, RtLeastText}

\* rep! of step1_read_print: read_str, then pr_str(exp, true) of what was
\* read; nothing is evaluated.
ReadPrintOf(op, input) ==
    /\ running
    /\ steps < MaxSteps
    /\ LET ast == read_str(input)
       IN last' = IF ast.ok
                  THEN Record(op, 0, <<>>, ast.val, input, "ok",
                              MalString(print(ast.val)), <<>>, store)
                  ELSE Record(op, 0, <<>>, MalNil, input, "read_err",
                              ErrV(ast.err, MalNil), <<>>, store)
    /\ steps' = steps + 1
    /\ UNCHANGED <<store, running, build>>

\* A line of text is read and printed.
ReadPrint(input) == ReadPrintOf("readprint", input)

\* The text printed last is read and printed in its turn.
Reread ==
    /\ last.op \in {"readprint", "reread"}
    /\ last.status = "ok"
    /\ ReadPrintOf("reread", Payload(last.val))

NextRound ==
    \/ \E input \in RoundTexts : ReadPrint(input)
    \/ Reread

SpecRound == Init /\ [][NextRound]_vars

\* The String contents the reader gives for the string literals above.
StringContents ==
    {<<RtEscapesText, <<"a", "\\", "b", "\"", "c", "\n", "d">>>>,
     <<RtBackslashNText, <<"\\", "n">>>>,
     <<RtRawNewlineText, <<"x", "\n", "y">>>>,
     <<RtEmptyStringText, <<>>>>,
     <<RtQuoteOnlyText, <<"\"">>>>}

\* What was read is a String with a backslash, a double quote and a newline.
IsEscapedString(v) ==
    /\ Tag(v) = "String"
    /\ \A c \in {"\\", "\"", "\n"} : \E i \in 1..Len(Payload(v)) : Payload(v)[i] = c

\* C15: for every Expr e read from a valid literal form, reading the text
\* pr_str(e, TRUE) succeeds and gives an Expr structurally equal to e, whose
\* printed text is the same again; a String content with backslash, double
\* quote and newline survives unchanged.
C15_PrintReadRoundTrip ==
    [][/\ last'.op = "readprint" => last'.status = "ok"
       /\ \A q \in StringContents :
             (last'.op = "readprint" /\ last'.text = q[1]) =>
                last'.ast = MalString(q[2])
       /\ last'.op = "reread" =>
             /\ last'.text = Payload(last.val)
             /\ last'.status = "ok"
             /\ MalEq(last'.ast, last.ast)
             /\ MalEq(last.ast, last'.ast)
             /\ Tag(last.ast) = "String" => last'.ast = last.ast
             /\ last'.val = last.val]_vars

\* The printed text of a String with backslash, quote and newline was reread.
C15_Witness ==
    /\ last.op = "reread"
    /\ last.status = "ok"
    /\ IsEscapedString(last.ast)
    /\ last.text = RtEscapesText

\* ----------------------------------------------------------------- C16

\* nil
LitNilText ==
    <<"n", "i", "l">>

\* true
LitTrueText ==
    <<"t", "r", "u", "e">>

\* false
LitFalseText ==
    <<"f", "a", "l", "s", "e">>

\* (let* (nil 5) nil)
LetNilText ==
    <<"(", "l", "e", "t", "*", " ", "(", "n", "i", "l", " ", "5", ")", " ", "n", "i",
      "l", ")">>

\* (def! true false)
DefTrueText ==
    <<"(", "d", "e", "f", "!", " ", "t", "r", "u", "e", " ", "f", "a", "l", "s", "e",
      ")">>

\* (if true 1 2)
IfTrueText ==
    <<"(", "i", "f", " ", "t", "r", "u", "e", " ", "1", " ", "2", ")">>

\* (def! nil 7)
DefNilText ==
    <<"(", "d", "e", "f", "!", " ", "n", "i", "l", " ", "7", ")">>

LitTexts ==
    {LitNilText, LitTrueText, LitFalseText, LetNilText, DefTrueText, IfTrueText,
     DefNilText}

NextLit == \E input \in LitTexts : Rep(input)

SpecLit == Init /\ [][NextLit]_vars

\* C16: the reader gives Nil, Bool(true) and Bool(false) for the tokens nil,
\* true and false, not a Symbol, so what they evaluate to does not depend on
\* the environment: (let* (nil 5) nil) does not yield 5, and after
\* (def! true false) the literal true still yields Bool(true).
C16_LiteralsAreAtoms ==
    last.op = "rep" =>
       /\ last.text = LitNilText =>
             last.ast = MalNil /\ last.status = "ok" /\ last.val = MalNil
       /\ last.text = LitTrueText =>
             last.ast = MalBool(TRUE) /\ last.status = "ok" /\ last.val = MalBool(TRUE)
       /\ last.text = LitFalseText =>
             last.ast = MalBool(FALSE) /\ last.status = "ok" /\ last.val = MalBool(FALSE)
       /\ last.text = LetNilText => ~(last.status = "ok" /\ last.val = Num(5))
       /\ last.text = IfTrueText => last.status = "ok" /\ last.val = Num(1)

\* ------------------------------------------------------- C17, C18, C19

\* "abc
OpenStringText ==
    <<"\"", "a", "b", "c">>

\* "ab\
OpenStringEscText ==
    <<"\"", "a", "b", "\\">>

\* (1 "a
OpenStringInListText ==
    <<"(", "1", " ", "\"", "a">>

\* "a\"
OpenStringQuoteEscText ==
    <<"\"", "a", "\\", "\"">>

\* Strings with no closing quote.
UnterminatedTexts ==
    {OpenStringText, OpenStringEscText, OpenStringInListText, OpenStringQuoteEscText}

\* (1 2
OpenListText ==
    <<"(", "1", " ", "2">>

\* [1
OpenVectorText ==
    <<"[", "1">>

\* {:a 1
OpenMapText ==
    <<"{", ":", "a", " ", "1">>

\* (1 [2]
OpenNestedText ==
    <<"(", "1", " ", "[", "2", "]">>

\* Forms with no closing delimiter.
UnclosedTexts ==
    {OpenListText, OpenVectorText, OpenMapText, OpenNestedText}

\* )
CloseParenText ==
    <<")">>

\* ] 1
CloseBracketText ==
    <<"]", " ", "1">>

\* }
CloseBraceText ==
    <<"}">>

\* A closing delimiter as the first token.
CloserFirstTexts ==
    {CloseParenText, CloseBracketText, CloseBraceText}

\* (1 2]
MismatchListText ==
    <<"(", "1", " ", "2", "]">>

\* [1 2)
MismatchVectorText ==
    <<"[", "1", " ", "2", ")">>

\* {:a 1)
MismatchMapText ==
    <<"{", ":", "a", " ", "1", ")">>

\* A closing delimiter of another kind than the opener.
CloserMismatchTexts ==
    {MismatchListText, MismatchVectorText, MismatchMapText}

\* (1 2))
TrailingListText ==
    <<"(", "1", " ", "2", ")", ")">>

\* 1 )
TrailingAtomText ==
    <<"1", " ", ")">>

\* [1] ]
TrailingVectorText ==
    <<"[", "1", "]", " ", "]">>

\* A closing delimiter after a complete form.
CloserTrailingTexts ==
    {TrailingListText, TrailingAtomText, TrailingVectorText}

\* (1 # 2)
UnknownCharText ==
    <<"(", "1", " ", "#", " ", "2", ")">>

\* (a & b)
AmpersandText ==
    <<"(", "a", " ", "&", " ", "b", ")">>

\* x%y
PercentText ==
    <<"x", "%", "y">>

\* (1 99999 2)
BigNumberText ==
    <<"(", "1", " ", "9", "9", "9", "9", "9", " ", "2", ")">>

\* 99999 7
BigNumberAloneText ==
    <<"9", "9", "9", "9", "9", " ", "7">>

\* Texts with a character that starts no token, or a digit run that fits no Number.
DroppedTexts ==
    {UnknownCharText, AmpersandText, PercentText, BigNumberText, BigNumberAloneText}

\* (1 2)
PlainListText ==
    <<"(", "1", " ", "2", ")">>

\* "ab"
PlainStringText ==
    <<"\"", "a", "b", "\"">>

\* (1 ,2) ; x
PlainCommentText ==
    <<"(", "1", " ", ",", "2", ")", " ", ";", " ", "x">>

\* Well-formed texts.
WellFormedTexts ==
    {PlainListText, PlainStringText, PlainCommentText}

ReadTexts ==
    UnterminatedTexts
    \cup UnclosedTexts
    \cup CloserFirstTexts
    \cup CloserMismatchTexts
    \cup CloserTrailingTexts
    \cup DroppedTexts
    \cup WellFormedTexts

NextRead == \E input \in ReadTexts : ReadPrint(input)

SpecRead == Init /\ [][NextRead]_vars

\* The error value of a failed read_str of input.
ReadError(input) == ErrV(read_str(input).err, MalNil)

\* C17: a string literal whose closing quote is missing, also when the input
\* ends right after a backslash, makes read_str fail with an error that is
\* not the one it returns for a missing closing ), ] or }.
C17_UnterminatedStringDistinct ==
    (last.op = "readprint" /\ last.text \in UnterminatedTexts) =>
       /\ last.status = "read_err"
       /\ \A u \in UnclosedTexts : last.val # ReadError(u)

\* C18: a closing ), ] or } without a matching opener makes read_str fail
\* with the error of an unexpected closing delimiter, whether it is the first
\* token, closes an opener of another kind or follows a complete form.
C18_UnmatchedCloserFails ==
    (last.op = "readprint"
       /\ last.text \in CloserFirstTexts \cup CloserMismatchTexts \cup CloserTrailingTexts) =>
       /\ last.status = "read_err"
       /\ last.val = ReadError(CloseParenText)

\* C19: the reader drops nothing but whitespace, commas and comments: a
\* character that starts no token and a digit run that fits no Number make
\* read_str fail.
C19_NothingDropped ==
    (last.op = "readprint" /\ last.text \in DroppedTexts) => last.status = "read_err"

\* ----------------------------------------------------------------- C20

KwA == MalKeyword(<<"a">>)
KwB == MalKeyword(<<"b">>)
KwC == MalKeyword(<<"c">>)

\* (list (def! x 1) zz (def! x 2)): the second argument fails
AppFail == ListOf(<<DefX(1), Sym(n_zz), DefX(2)>>)
\* (zz (def! x 1)): the head fails
AppHeadFail == Lst(<<Sym(n_zz), DefX(1)>>)
\* (list (def! x 1) x (def! x 2) x)
AppOrder == ListOf(<<DefX(1), Sym(n_x), DefX(2), Sym(n_x)>>)
\* ((fn* (a) (def! x 2)) zz): the argument of a closure fails
AppNotApplied ==
    Lst(<<Lst(<<Sym(N_fn), Lst(<<Sym(n_a)>>), DefX(2)>>), Sym(n_zz)>>)
\* ((fn* (a) (def! x a)) 2): a closure is applied
AppApplied ==
    Lst(<<Lst(<<Sym(N_fn), Lst(<<Sym(n_a)>>), Lst(<<Sym(N_def), Sym(n_x), Sym(n_a)>>)>>),
          Num(2)>>)
\* (prn 1 zz): the argument of a builtin with an effect fails
PrnFail == Lst(<<Sym(N_prn), Num(1), Sym(n_zz)>>)
\* [(def! x 1) zz (def! x 2)]
VecFail == MalVector(<<DefX(1), Sym(n_zz), DefX(2)>>)
\* [(def! x 1) x (def! x 2) x]
VecOrder == MalVector(<<DefX(1), Sym(n_x), DefX(2), Sym(n_x)>>)
\* [[zz] (def! x 1)]
VecNestedFail == MalVector(<<MalVector(<<Sym(n_zz)>>), DefX(1)>>)
\* {:a (def! x 1) :b zz :c (def! x 2)}
MapFail == MalMap(<<<<KwA, DefX(1)>>, <<KwB, Sym(n_zz)>>, <<KwC, DefX(2)>>>>)
\* {:a (def! x 1) :b x zz (def! x 2)}: the key zz is not evaluated
MapOrder == MalMap(<<<<KwA, DefX(1)>>, <<KwB, Sym(n_x)>>, <<Sym(n_zz), DefX(2)>>>>)

SeqForms ==
    {AppFail, AppHeadFail, AppOrder, AppNotApplied, AppApplied, PrnFail, VecFail,
     VecOrder, VecNestedFail, MapFail, MapOrder, DefX(1), DefX(2), Sym(n_x)}

NextSeq == \E ast \in SeqForms : EvalForm(ast)

SpecSeq == Init /\ [][NextSeq]_vars

\* ast is a generic application: a non-empty List whose head is no special
\* form name.
IsApplication(ast) ==
    /\ Tag(ast) = "List"
    /\ Payload(ast) # <<>>
    /\ ~(Tag(Payload(ast)[1]) = "Symbol" /\ Payload(Payload(ast)[1]) \in SpecialNames)

\* The sub-forms a form evaluates: the elements of a List or Vector, the
\* values of a Map.
SubForms(ast) ==
    IF Tag(ast) = "Map"
    THEN [p \in 1..Len(Payload(ast)) |-> Payload(ast)[p][2]]
    ELSE Payload(ast)

\* The container built from the values vals of the sub-forms of ast.
Rebuilt(ast, vals) ==
    IF Tag(ast) = "Map"
    THEN MalMap([p \in 1..Len(vals) |-> <<Payload(ast)[p][1], vals[p]>>])
    ELSE MalVector(vals)

\* What one evaluation of an application, a Vector or a Map, entered at index
\* i, did: its sub-forms in order up to the first that fails, and only when
\* none fails the application or the container.
SeqShape(log, i) ==
    LET ev == log[i]
        subs == SubForms(ev.x)
        n == Len(subs)
        own == Own(log, i)
        ret == log[RetOf(log, i)]
        failing == {p \in 1..n : 2 * p <= Len(own) /\ Failed(own[2 * p])}
        k == IF failing = {} THEN n
             ELSE CHOOSE p \in failing : \A q \in failing : p <= q
    IN /\ Len(own) >= 2 * k
       /\ \A p \in 1..k :
             /\ own[2 * p - 1] = EnterEv(ev.d + 1, ev.env, subs[p])
             /\ own[2 * p].k \in {"ret", "unwind"}
       /\ failing # {} =>
             /\ Len(own) = 2 * k
             /\ ret.x = own[2 * k].x
             /\ Failed(ret)
             /\ \A m \in (i + 1)..(RetOf(log, i) - 1) :
                   ~(log[m].d = ev.d /\ log[m].k = "stdout")
       /\ (failing = {} /\ ~IsApplication(ev.x)) =>
             /\ Len(own) = 2 * n
             /\ ret.k = "ret"
             /\ ret.x = Rebuilt(ev.x, [p \in 1..n |-> own[2 * p].x])

\* C20: an application, a Vector and a Map evaluate their sub-forms (for a
\* Map its values) from left to right, the head of an application first; the
\* first sub-form that fails makes the form fail with that error, no
\* sub-form to its right is evaluated, no partial container is returned and
\* the function is not applied.
C20_LeftToRightShortCircuit ==
    TopLevel =>
       /\ \A i \in 1..Len(last.log) :
             (last.log[i].k = "eval"
                /\ (IsApplication(last.log[i].x)
                      \/ Tag(last.log[i].x) \in {"Vector", "Map"})) =>
                SeqShape(last.log, i)
       /\ last.ast \in {AppFail, VecFail, MapFail} =>
             /\ last.status = "err" /\ last.val = NotFound(n_zz)
             /\ EnvGet(store, Root, n_x) = Num(1)
       /\ last.ast \in {AppHeadFail, AppNotApplied, PrnFail, VecNestedFail} =>
             /\ last.status = "err" /\ last.val = NotFound(n_zz)
             /\ store[Root] = last.pre[Root]
       /\ last.ast = AppOrder =>
             /\ last.status = "ok"
             /\ last.val = MalList(<<Num(1), Num(1), Num(2), Num(2)>>)
       /\ last.ast = VecOrder =>
             /\ last.status = "ok"
             /\ last.val = MalVector(<<Num(1), Num(1), Num(2), Num(2)>>)
       /\ last.ast = MapOrder =>
             /\ last.status = "ok"
             /\ last.val = MalMap(<<<<KwA, Num(1)>>, <<KwB, Num(1)>>,
                                    <<Sym(n_zz), Num(2)>>>>)

\* An application has failed at its second argument after its first rebound x.
C20_Witness ==
    /\ last.op = "eval"
    /\ last.ast = AppFail
    /\ last.status = "err"
    /\ EnvGet(last.pre, Root, n_x) = Num(2)
    /\ EnvGet(store, Root, n_x) = Num(1)
    /\ Len(Own(last.log, 1)) = 6

\* ----------------------------------------------------------------- C21

\* (def! DEBUG-EVAL v)
DebugDef(v) == Lst(<<Sym(N_def), Sym(N_debug), v>>)

\* The forms whose values the sentinel is bound to: nil, false, true, 0, "",
\* (list), :a, [], {} and (fn* (a) zz).
SentinelForms ==
    {Sym(N_nil), Sym(N_false), Sym(N_true), Num(0), MalString(<<>>), ListOf(<<>>),
     KwA, MalVector(<<>>), MalMap(<<>>), FnForm(<<Sym(n_a)>>)}

\* (let* (DEBUG-EVAL :a) 1) and (let* (DEBUG-EVAL nil) 1): the sentinel bound
\* in an inner scope.
LetSentinel(v) == Lst(<<Sym(N_let), Lst(<<Sym(N_debug), v>>), Num(1)>>)

DebugProbes ==
    {Num(1), Sym(n_zz), ListOf(<<Num(1)>>), LetSentinel(KwA), LetSentinel(Sym(N_nil))}

DebugForms == {DebugDef(v) : v \in SentinelForms} \cup DebugProbes

NextDebug == \E ast \in DebugForms : EvalForm(ast)

SpecDebug == Init /\ [][NextDebug]_vars

\* What DEBUG-EVAL resolves to at the step entered at index i of the trace of
\* the last evaluation: the binding made earlier in the step's own scope, or
\* else the root binding the evaluation started with.
SentinelAt(log, i) ==
    LET sets == {j \in 1..(i - 1) : /\ log[j].k = "set"
                                    /\ log[j].name = N_debug
                                    /\ log[j].env = log[i].env}
    IN IF sets = {} THEN EnvGet(last.pre, Root, N_debug)
       ELSE log[CHOOSE j \in sets : \A m \in sets : m <= j].x

\* The diagnostic output of the step entered at index i, in order.
StepLog(log, i) ==
    SelectSeq(SubSeq(log, i + 1, RetOf(log, i) - 1),
              LAMBDA e : e.d = log[i].d /\ e.k = "stderr")

\* The two lines a step in diagnostic mode writes.
InputLine(ast) == MalString(<<"E", "V", "A", "L", ":", " ">> \o pr_str(ast, TRUE))
ResultLine(val) == MalString(pr_str(val, TRUE))

\* C21: a step logs its input form and, when it succeeds, its result if
\* DEBUG-EVAL resolves to a value other than Nil and false, and logs nothing
\* otherwise.
C21_DebugWhenTruthy ==
    (TopLevel /\ last.status \in {"ok", "err"}) =>
       \A i \in 1..Len(last.log) :
          last.log[i].k = "eval" =>
             LET v == SentinelAt(last.log, i)
                 ret == last.log[RetOf(last.log, i)]
                 out == StepLog(last.log, i)
             IN IF v # NoneV /\ ~IsFalsy(v)
                THEN /\ Len(out) >= 1
                     /\ out[1].x = InputLine(last.log[i].x)
                     /\ IF Failed(ret) THEN Len(out) = 1
                        ELSE Len(out) = 2 /\ out[2].x = ResultLine(ret.x)
                ELSE out = <<>>

\* ----------------------------------------------------------------- C22

DefY(i) == Lst(<<Sym(N_def), Sym(n_y), Num(i)>>)

\* Special forms with a wrong number of operands; the operands they have
\* would bind x or y if they were evaluated.
\* (def!), (def! x), (def! x (def! y 1) 2)
DefArityForms ==
    {Lst(<<Sym(N_def)>>), Lst(<<Sym(N_def), Sym(n_x)>>),
     Lst(<<Sym(N_def), Sym(n_x), DefY(1), Num(2)>>)}
\* (let*), (let* (a (def! y 1))), (let* (a 1) a (def! y 1))
LetArityForms ==
    {Lst(<<Sym(N_let)>>), Lst(<<Sym(N_let), Lst(<<Sym(n_a), DefY(1)>>)>>),
     Lst(<<Sym(N_let), Lst(<<Sym(n_a), Num(1)>>), Sym(n_a), DefY(1)>>)}
\* (fn*), (fn* (a)), (fn* (a) 1 (def! y 1))
FnArityForms ==
    {Lst(<<Sym(N_fn)>>), Lst(<<Sym(N_fn), Lst(<<Sym(n_a)>>)>>),
     Lst(<<Sym(N_fn), Lst(<<Sym(n_a)>>), Num(1), DefY(1)>>)}
\* (if), (if (def! y 1)), (if (def! y 1) 1 2 3)
IfArityForms ==
    {Lst(<<Sym(N_if)>>), Lst(<<Sym(N_if), DefY(1)>>),
     Lst(<<Sym(N_if), DefY(1), Num(1), Num(2), Num(3)>>)}
\* (do)
DoArityForms == {Lst(<<Sym(N_do)>>)}
\* (def! 1 (def! x 2)), (def! "x" (def! y 1)), (def! (x) 1)
DefTargetForms ==
    {Lst(<<Sym(N_def), Num(1), DefX(2)>>),
     Lst(<<Sym(N_def), MalString(<<"x">>), DefY(1)>>),
     Lst(<<Sym(N_def), Lst(<<Sym(n_x)>>), Num(1)>>)}
\* (let* (a) a), (let* (a (def! y 1) b) a), (let* [(def! y 1)] 1)
LetOddForms ==
    {Lst(<<Sym(N_let), Lst(<<Sym(n_a)>>), Sym(n_a)>>),
     Lst(<<Sym(N_let), Lst(<<Sym(n_a), DefY(1), Sym(n_b)>>), Sym(n_a)>>),
     Lst(<<Sym(N_let), MalVector(<<DefY(1)>>), Num(1)>>)}
\* (let* (1 2) 3), (let* (a 1 2 a) a), (let* (a zz 2 3) a)
LetKeyForms ==
    {Lst(<<Sym(N_let), Lst(<<Num(1), Num(2)>>), Num(3)>>),
     Lst(<<Sym(N_let), Lst(<<Sym(n_a), Num(1), Num(2), Sym(n_a)>>), Sym(n_a)>>),
     Lst(<<Sym(N_let), Lst(<<Sym(n_a), Sym(n_zz), Num(2), Num(3)>>), Sym(n_a)>>)}

\* (do (def! x 1) M) for a malformed form M: M below the top level
InDo(ast) == Lst(<<Sym(N_do), DefX(1), ast>>)

MalformedForms ==
    DefArityForms \cup LetArityForms \cup FnArityForms \cup IfArityForms
       \cup DoArityForms \cup DefTargetForms \cup LetOddForms \cup LetKeyForms

SyntaxForms ==
    MalformedForms \cup {InDo(ast) : ast \in DefTargetForms \cup LetOddForms}
       \cup {DefX(1), DefX(2), DefY(1), LetForm}

NextSyntax == \E ast \in SyntaxForms : EvalForm(ast)

SpecSyntax == Init /\ [][NextSyntax]_vars

\* ast is a special form with a number of operands its handler refuses.
BadArity(ast) ==
    \/ IsForm(ast, N_def, Nat \ {3})
    \/ IsForm(ast, N_let, Nat \ {3})
    \/ IsForm(ast, N_fn, Nat \ {3})
    \/ IsForm(ast, N_if, Nat \ {3, 4})
    \/ IsForm(ast, N_do, {1})

\* ast is a def! of two operands whose first is not a Symbol.
BadDefTarget(ast) == IsForm(ast, N_def, {3}) /\ Tag(Payload(ast)[2]) # "Symbol"

\* ast is a let* of two operands whose bindings are of odd length.
OddBindings(ast) ==
    /\ IsForm(ast, N_let, {3})
    /\ Tag(Payload(ast)[2]) \in {"List", "Vector"}
    /\ Len(Payload(Payload(ast)[2])) % 2 = 1

\* ast is a let* of two operands with an even number of binding forms, one
\* of whose keys is not a Symbol.
BadLetKey(ast) ==
    /\ IsForm(ast, N_let, {3})
    /\ Tag(Payload(ast)[2]) \in {"List", "Vector"}
    /\ Len(Payload(Payload(ast)[2])) % 2 = 0
    /\ \E p \in 1..Len(Payload(Payload(ast)[2])) :
          p % 2 = 1 /\ Tag(Payload(Payload(ast)[2])[p]) # "Symbol"

\* C22: a malformed special form fails with an evaluation error; a wrong
\* operand count, a def! target that is no Symbol and an odd binding count
\* fail before any operand is evaluated and leave every environment as it
\* was.
C22_MalformedSpecialForms ==
    TopLevel =>
       /\ \A i \in 1..Len(last.log) :
             LET ast == last.log[i].x
                 ret == last.log[RetOf(last.log, i)]
                 early == BadArity(ast) \/ BadDefTarget(ast) \/ OddBindings(ast)
             IN (last.log[i].k = "eval" /\ (early \/ BadLetKey(ast))) =>
                   /\ ret.k = "ret" /\ Tag(ret.x) = "Err"
                   /\ early =>
                         \A m \in (i + 1)..(RetOf(last.log, i) - 1) :
                            last.log[m].k \notin {"eval", "set", "stdout", "stderr"}
       /\ last.ast \in MalformedForms =>
             /\ last.status = "err"
             /\ last.ast \notin LetKeyForms => store = last.pre

\* A def! whose target is a Number has failed, in a state where x was bound
\* to 1, without evaluating the operand that would rebind x.
C22_Witness ==
    /\ last.op = "eval"
    /\ last.ast = Lst(<<Sym(N_def), Num(1), DefX(2)>>)
    /\ last.status = "err"
    /\ last.val = ErrV("def! first argument must be a symbol", MalNil)
    /\ EnvGet(last.pre, Root, n_x) = Num(1)
    /\ EnvGet(store, Root, n_x) = Num(1)

\* ----------------------------------------------------------------- C23

\* What the application ((fn* params body) 1 .. n), the last evaluation, did
\* after its n + 1 items were evaluated.
Applied(n) == SubSeq(Own(last.log, 1), 2 * (n + 1) + 1, Len(Own(last.log, 1)))

\* The application creates one scope C under the scope the Function
\* captured, binds there the k fixed parameters to the first k arguments in
\* order and, for a variadic Function, the rest parameter to the List of the
\* others, evaluates the body in C and returns its value.
BindsParams(params, n) ==
    LET k == FixedLen(params)
        f == Own(last.log, 1)[2].x
        app == Applied(n)
        C == app[1].env
        m == 1 + k + (IF IsVariadic(params) THEN 1 ELSE 0)
    IN /\ Len(app) = m + 2
       /\ app[1] = Ev("new", 0, C, Payload(f).env, <<>>, f)
       /\ C \notin DOMAIN last.pre
       /\ \A i \in 1..k : app[1 + i] = Ev("set", 0, C, 0, params[i], Num(i))
       /\ IsVariadic(params) =>
             app[m] = Ev("set", 0, C, 0, params[Len(params)],
                         Lst([i \in 1..(n - k) |-> Num(k + i)]))
       /\ app[m + 1] = EnterEv(1, C, Payload(f).body)
       /\ app[m + 2].k = "ret"
       /\ last.val = app[m + 2].x

\* C23: a Function with parameters p1 .. pk or p1 .. pk & r applied to
\* n >= k arguments binds, in one new scope, each pi to argument i and r to
\* the List of the arguments after the k-th (the empty List when n = k);
\* without & r the arguments after the k-th are ignored; the result is the
\* value of the body in that scope.
C23_ParameterBinding ==
    \A params \in ParamLists : \A n \in 0..MaxArgs :
       (last.op = "eval" /\ last.ast = CallWith(params, n) /\ n >= FixedLen(params)) =>
          /\ last.status = "ok"
          /\ BindsParams(params, n)
          /\ last.val =
                Lst([i \in 1..FixedLen(params) |-> Num(i)]
                    \o (IF IsVariadic(params)
                        THEN <<Lst([i \in 1..(n - FixedLen(params)) |->
                                       Num(FixedLen(params) + i)])>>
                        ELSE <<>>))

\* ((fn* (a & r) (list a r)) 1 2 3) has returned (1 (2 3)).
C23_Witness ==
    /\ last.op = "eval"
    /\ last.ast = CallWith(<<n_a, N_amp, n_r>>, 3)
    /\ last.status = "ok"
    /\ last.val = Lst(<<Num(1), Lst(<<Num(2), Num(3)>>)>>)
    /\ Len(Applied(3)) = 5

\* ----------------------------------------------------------------- C24

\* (fn* (a b c) 9)
F9 == Lst(<<Sym(N_fn), Lst(<<Sym(n_a), Sym(n_b), Sym(n_c)>>), Num(9)>>)

\* (def! if (fn* (a b c) 9)), (def! do 5), (def! def! (fn* (a b c) 9))
BindIf == Lst(<<Sym(N_def), Sym(N_if), F9>>)
BindDo == Lst(<<Sym(N_def), Sym(N_do), Num(5)>>)
BindDef == Lst(<<Sym(N_def), Sym(N_def), F9>>)

\* (if false 1 2)
IfProbe == Lst(<<Sym(N_if), Sym(N_false), Num(1), Num(2)>>)
\* (do 1 2)
DoProbe == Lst(<<Sym(N_do), Num(1), Num(2)>>)
\* (let* (a 1) a)
LetProbe == Lst(<<Sym(N_let), Lst(<<Sym(n_a), Num(1)>>), Sym(n_a)>>)
\* ((fn* (a) a) 7)
FnProbe == Lst(<<Lst(<<Sym(N_fn), Lst(<<Sym(n_a)>>), Sym(n_a)>>), Num(7)>>)
\* (let* (if (fn* (a b c) 9)) (if false 1 2))
LetShadowIf == Lst(<<Sym(N_let), Lst(<<Sym(N_if), F9>>), IfProbe>>)
\* (let* (let* 5) (let* (a 1) a))
LetShadowLet == Lst(<<Sym(N_let), Lst(<<Sym(N_let), Num(5)>>), LetProbe>>)
\* ((fn* (fn*) ((fn* (a) a) 7)) 5)
ParamShadowFn == Lst(<<Lst(<<Sym(N_fn), Lst(<<Sym(N_fn)>>), FnProbe>>), Num(5)>>)
\* ((fn* (do) (do 1 2)) 5)
ParamShadowDo == Lst(<<Lst(<<Sym(N_fn), Lst(<<Sym(N_do)>>), DoProbe>>), Num(5)>>)

DispatchForms ==
    {BindIf, BindDo, BindDef, IfProbe, DoProbe, LetProbe, FnProbe, DefX(1), DefX(2),
     LetShadowIf, LetShadowLet, ParamShadowFn, ParamShadowDo}

NextDispatch == \E ast \in DispatchForms : EvalForm(ast)

SpecDispatch == Init /\ [][NextDispatch]_vars

\* C24: a non-empty List headed by def!, let*, do, if or fn* is handled by
\* the special form whatever the environment binds these names to: the head
\* is never looked up, and the form has the outcome it has in the default
\* environment.
C24_DispatchByHeadName ==
    (TopLevel /\ last.op = "eval") =>
       /\ \A i \in 1..Len(last.log) :
             last.log[i].k = "eval" =>
                ~(Tag(last.log[i].x) = "Symbol" /\ Payload(last.log[i].x) \in SpecialNames)
       /\ last.status = "ok"
       /\ last.ast \in {IfProbe, LetShadowIf, DoProbe, ParamShadowDo} => last.val = Num(2)
       /\ last.ast \in {LetProbe, LetShadowLet} => last.val = Num(1)
       /\ last.ast \in {FnProbe, ParamShadowFn} => last.val = Num(7)
       /\ \A i \in 1..2 :
             last.ast = DefX(i) =>
                last.val = Num(i) /\ EnvGet(store, Root, n_x) = Num(i)
       /\ last.ast = BindDo =>
             last.val = Num(5) /\ EnvGet(store, Root, N_do) = Num(5)
       /\ last.ast = BindIf => Tag(EnvGet(store, Root, N_if)) = "Function"
       /\ last.ast = BindDef => Tag(EnvGet(store, Root, N_def)) = "Function"

\* (if false 1 2) has yielded 2 in a root scope that binds if to a Function.
C24_Witness ==
    /\ last.op = "eval"
    /\ last.ast = IfProbe
    /\ last.val = Num(2)
    /\ Tag(EnvGet(last.pre, Root, N_if)) = "Function"
    /\ EnvGet(last.pre, Root, N_def) # NoneV

\* ----------------------------------------------------------------- C25

\* (def! x 9)
DefX9 == Lst(<<Sym(N_def), Sym(n_x), Num(9)>>)
\* (def! f (fn* () (def! x 9))): a closure over the root scope whose body
\* binds x
DefFDef == Lst(<<Sym(N_def), Sym(n_f), Lst(<<Sym(N_fn), Lst(<<>>), DefX9>>)>>)
\* (let* (a 1) (def! x 9))
LetBodyDef == Lst(<<Sym(N_let), Lst(<<Sym(n_a), Num(1)>>), DefX9>>)
\* (let* (a (def! x 9)) x)
LetInitDef == Lst(<<Sym(N_let), Lst(<<Sym(n_a), DefX9>>), Sym(n_x)>>)
\* (let* (a 1) (f))
LetCallsF == Lst(<<Sym(N_let), Lst(<<Sym(n_a), Num(1)>>), CallF>>)
\* ((fn* (a) (def! x a)) 7)
CallBodyDef ==
    Lst(<<Lst(<<Sym(N_fn), Lst(<<Sym(n_a)>>),
                Lst(<<Sym(N_def), Sym(n_x), Sym(n_a)>>)>>), Num(7)>>)
\* (let* (x 1) (do (let* (b 2) (def! x 3)) x))
NestedLet ==
    Lst(<<Sym(N_let), Lst(<<Sym(n_x), Num(1)>>),
          Lst(<<Sym(N_do),
                Lst(<<Sym(N_let), Lst(<<Sym(n_b), Num(2)>>),
                      Lst(<<Sym(N_def), Sym(n_x), Num(3)>>)>>),
                Sym(n_x)>>)>>)
\* ((fn* (x) (do ((fn* () (def! x 3))) x)) 1)
NestedCall ==
    Lst(<<Lst(<<Sym(N_fn), Lst(<<Sym(n_x)>>),
                Lst(<<Sym(N_do),
                      Lst(<<Lst(<<Sym(N_fn), Lst(<<>>),
                                  Lst(<<Sym(N_def), Sym(n_x), Num(3)>>)>>)>>),
                      Sym(n_x)>>)>>),
          Num(1)>>)

\* The let* forms and applications whose initializers, bodies and callees
\* execute a def!.
FramedForms ==
    {LetBodyDef, LetInitDef, LetCallsF, CallBodyDef, NestedLet, NestedCall, CallF}

FrameForms == FramedForms \cup {DefX(1), DefX(2), DefY(1), DefFDef, Sym(n_x)}

NextFrame == \E ast \in FrameForms : EvalForm(ast)

SpecFrame == Init /\ [][NextFrame]_vars

\* The number of scopes that exist when the event at index i of the trace of
\* the last evaluation happens; scopes are numbered in the order of their
\* creation.
Existing(log, i) ==
    Len(last.pre) + Cardinality({j \in 1..(i - 1) : log[j].k = "new"})

\* The index at which the form that created a scope at index j returns.
EndOf(log, j) ==
    CHOOSE m \in (j + 1)..Len(log) :
       /\ log[m].d = log[j].d /\ log[m].k \in {"ret", "unwind"}
       /\ \A q \in (j + 1)..(m - 1) :
             ~(log[q].d = log[j].d /\ log[q].k \in {"ret", "unwind"})

\* C25: no binding made while a let* form or the body of an applied Function
\* is evaluated goes to a scope that existed before the let* or the
\* application started: every def! inside binds in a scope created since, so
\* the enclosing scope and the root scope keep their bindings.
C25_LetAndCallFrame ==
    (TopLevel /\ last.op = "eval") =>
       /\ \A i \in Entered(last.log, N_let, {3}) :
             \A m \in (i + 1)..(RetOf(last.log, i) - 1) :
                last.log[m].k = "set" => last.log[m].env > Existing(last.log, i)
       /\ \A j \in 1..Len(last.log) :
             (last.log[j].k = "new" /\ Tag(last.log[j].x) = "Function") =>
                \A m \in (j + 1)..(EndOf(last.log, j) - 1) :
                   last.log[m].k = "set" => last.log[m].env > Existing(last.log, j)
       /\ last.ast \in FramedForms =>
             \A e \in DOMAIN last.pre : e \in DOMAIN store /\ store[e] = last.pre[e]
       /\ last.ast \in {NestedLet, NestedCall} =>
             last.status = "ok" /\ last.val = Num(1)
       /\ (last.ast \in {LetBodyDef, LetInitDef, LetCallsF, CallF} /\ last.status = "ok") =>
             last.val = Num(9)

\* (let* (a 1) (f)) has run the def! of x in the body of f while the root
\* scope binds x to 1, and the root scope still binds x to 1.
C25_Witness ==
    /\ last.op = "eval"
    /\ last.ast = LetCallsF
    /\ last.status = "ok"
    /\ EnvGet(last.pre, Root, n_x) = Num(1)
    /\ EnvGet(store, Root, n_x) = Num(1)
    /\ \E m \in 1..Len(last.log) :
          last.log[m].k = "set" /\ last.log[m].name = n_x /\ last.log[m].x = Num(9)

\* ----------------------------------------------------------------- C26

\* C26: for every pair of Numbers a, b of the integer range, (+ a b), (- a b)
\* and (* a b) return a Number and (/ a b) with b # 0 returns the Number
\* quotient truncated toward zero; only a zero divisor makes the builtin
\* fail, and nothing aborts the interpreter.
C26_ArithmeticTotal ==
    last.op = "eval" =>
       \A c \in ArithCases :
          last.ast = OpForm(c[1], <<Num(c[2]), Num(c[3])>>) =>
             /\ last.status \in {"ok", "err"}
             /\ running
             /\ last.status = "err" <=> (c[1] = <<"/">> /\ c[3] = 0)
             /\ last.status = "ok" =>
                   /\ Tag(last.val) = "Number"
                   /\ InRange(Payload(last.val))
                   /\ c[1] = <<"/">> => Payload(last.val) = TruncDiv(c[2], c[3])

\* ----------------------------------------------------------------- C27

\* Texts that begin with a complete form, or with a token no form begins with.
\* 7
FirstNumberText ==
    <<"7">>
\* (1 2)
FirstListText ==
    <<"(", "1", " ", "2", ")">>
\* [1 (2)]
FirstVectorText ==
    <<"[", "1", " ", "(", "2", ")", "]">>
\* {:a 1}
FirstMapText ==
    <<"{", ":", "a", " ", "1", "}">>
\* "s"
FirstStringText ==
    <<"\"", "s", "\"">>
\* x
FirstSymbolText ==
    <<"x">>
\* )
FirstCloserText ==
    <<")">>
\* 'x
FirstQuoteText ==
    <<"'", "x">>
\* (def! x 1)
FirstDefText ==
    <<"(", "d", "e", "f", "!", " ", "x", " ", "1", ")">>

FirstTexts ==
    {FirstNumberText, FirstListText, FirstVectorText, FirstMapText, FirstStringText,
     FirstSymbolText, FirstCloserText, FirstQuoteText, FirstDefText}

\* What follows the first form on the line: nothing, or further tokens.
TrailNothing == <<>>
\*  2
TrailNumber ==
    <<" ", "2">>
\*  )
TrailCloser ==
    <<" ", ")">>
\*  (
TrailOpener ==
    <<" ", "(">>
\*  ]
TrailBracket ==
    <<" ", "]">>
\*  (def! x 2)
TrailDef ==
    <<" ", "(", "d", "e", "f", "!", " ", "x", " ", "2", ")">>
\*  "t"
TrailString ==
    <<" ", "\"", "t", "\"">>
\*  zz
TrailSymbol ==
    <<" ", "z", "z">>
\* (prn 3)
TrailAdjacent ==
    <<"(", "p", "r", "n", " ", "3", ")">>

Trailers ==
    {TrailNothing, TrailNumber, TrailCloser, TrailOpener, TrailBracket,
     TrailDef, TrailString, TrailSymbol, TrailAdjacent}

\* The lines evaluated as well as read.
RepFirstTexts == {FirstDefText, FirstSymbolText, FirstNumberText}

NextTrail ==
    \/ \E p \in FirstTexts : \E t \in Trailers : ReadPrint(p \o t)
    \/ \E p \in RepFirstTexts : \E t \in Trailers : Rep(p \o t)

SpecTrail == Init /\ [][NextTrail]_vars

\* The form each text of FirstTexts that begins with a form is read as.
FirstFormOf(p) ==
    CASE p = FirstNumberText -> Num(7)
      [] p = FirstListText -> Lst(<<Num(1), Num(2)>>)
      [] p = FirstVectorText -> MalVector(<<Num(1), Lst(<<Num(2)>>)>>)
      [] p = FirstMapText -> MalMap(<<<<KwA, Num(1)>>>>)
      [] p = FirstStringText -> MalString(<<"s">>)
      [] p = FirstSymbolText -> Sym(n_x)
      [] p = FirstQuoteText -> Lst(<<Sym(<<"q", "u", "o", "t", "e">>), Sym(n_x)>>)
      [] p = FirstDefText -> DefX(1)

\* C27: read_str returns the first form of the line and the same value or
\* error whatever tokens follow it; the tokens that follow are not parsed,
\* not evaluated and not reported.
C27_ReadsOneForm ==
    \A p \in FirstTexts : \A t \in Trailers :
       last.text = p \o t =>
          /\ last.op = "readprint" =>
                IF p = FirstCloserText
                THEN /\ last.status = "read_err"
                     /\ last.val = ErrV(read_str(p).err, MalNil)
                ELSE /\ last.status = "ok"
                     /\ last.ast = FirstFormOf(p)
                     /\ last.val = MalString(pr_str(FirstFormOf(p), TRUE))
          /\ last.op = "rep" =>
                /\ last.ast = FirstFormOf(p)
                /\ last.status # "read_err"
                /\ last.log[1] = EnterEv(0, Root, FirstFormOf(p))
                /\ RetOf(last.log, 1) = Len(last.log) - 1
                /\ p = FirstDefText => EnvGet(store, Root, n_x) = Num(1)
                /\ p # FirstDefText => store = last.pre

\* The line (def! x 1) (def! x 2) has been read, evaluated and printed: x is
\* bound to 1.
C27_Witness ==
    /\ last.op = "rep"
    /\ last.text = FirstDefText \o TrailDef
    /\ last.status = "ok"
    /\ last.val = Num(1)
    /\ EnvGet(store, Root, n_x) = Num(1)

\* ----------------------------------------------------------------- C28

n_m == <<"m">>
n_k == <<"k">>
n_z == <<"z">>

\* (def! m (let* (y 1) (let* (z 2) (fn* () (list y z))))): a closure over a
\* chain of two let* scopes
DefM ==
    Lst(<<Sym(N_def), Sym(n_m),
          Lst(<<Sym(N_let), Lst(<<Sym(n_y), Num(1)>>),
                Lst(<<Sym(N_let), Lst(<<Sym(n_z), Num(2)>>),
                      Lst(<<Sym(N_fn), Lst(<<>>), ListOf(<<Sym(n_y), Sym(n_z)>>)>>)>>)>>)>>)
\* (def! k ((fn* (a) (fn* () a)) 1)): a closure over the scope of a call
DefK ==
    Lst(<<Sym(N_def), Sym(n_k),
          Lst(<<Lst(<<Sym(N_fn), Lst(<<Sym(n_a)>>),
                      Lst(<<Sym(N_fn), Lst(<<>>), Sym(n_a)>>)>>),
                Num(1)>>)>>)
\* (def! h 0), (def! m 0): the closure is dropped
UndefH == Lst(<<Sym(N_def), Sym(n_h), Num(0)>>)
UndefM == Lst(<<Sym(N_def), Sym(n_m), Num(0)>>)
\* (m), (k)
CallM == Lst(<<Sym(n_m)>>)
CallK == Lst(<<Sym(n_k)>>)

ChainForms == {DefH, DefM, DefK, UndefH, UndefM, CallH, CallM, CallK, DefX(1), LetForm}

NextChain == \E ast \in ChainForms : EvalForm(ast)

SpecChain == Init /\ [][NextChain]_vars

RECURSIVE Visits(_, _, _)
\* The scopes Env::get visits from scope env for a key no scope binds, in
\* order, cut off after n scopes.
Visits(st, env, n) ==
    IF n = 0 THEN <<>>
    ELSE IF st[env].outer = 0 THEN <<env>>
    ELSE <<env>> \o Visits(st, st[env].outer, n - 1)

\* C28: the outer chain of every scope is finite and acyclic and ends at the
\* root scope; the outer of a scope is fixed when the scope is created and is
\* a scope that existed before it; so Env::get visits each scope of a chain
\* at most once.
C28_OuterChainsEndAtRoot ==
    /\ store[Root].outer = 0
    /\ \A e \in DOMAIN store :
          LET v == Visits(store, e, Len(store) + 1)
          IN /\ e # Root => store[e].outer \in 1..(e - 1)
             /\ Len(v) <= Len(store)
             /\ v[Len(v)] = Root
             /\ \A p, q \in 1..Len(v) : v[p] = v[q] => p = q
    /\ TopLevel =>
          /\ \A e \in DOMAIN last.pre :
                e \in DOMAIN store => store[e].outer = last.pre[e].outer
          /\ \A i \in 1..Len(last.log) :
                last.log[i].k = "new" =>
                   /\ last.log[i].env = Existing(last.log, i) + 1
                   /\ last.log[i].outer \in 1..Existing(last.log, i)
                   /\ last.log[i].env \in DOMAIN store =>
                         store[last.log[i].env].outer = last.log[i].outer

\* The closure m is called while the store holds the two let* scopes it
\* captured, the second under the first, and a further scope.
C28_Witness ==
    /\ last.op = "eval"
    /\ last.ast = CallM
    /\ last.status = "ok"
    /\ Len(store) >= 4
    /\ \E e \in DOMAIN store : Visits(store, e, Len(store) + 1) = <<e, store[e].outer, Root>>
    /\ \E i \in 1..Len(last.log) : last.log[i].k = "new"

\* ----------------------------------------------------------------- C29

n_p == <<"p">>

\* (def! p +): p is bound to the Symbol the root scope binds + to
AliasPlus == Lst(<<Sym(N_def), Sym(n_p), Sym(<<"+">>)>>)
\* (def! + (fn* (a b) 9)): the name of a builtin is bound to a closure
RebindPlus ==
    Lst(<<Sym(N_def), Sym(<<"+">>),
          Lst(<<Sym(N_fn), Lst(<<Sym(n_a), Sym(n_b)>>), Num(9)>>)>>)
\* (p 1 2), (+ 1 2)
CallP == Lst(<<Sym(n_p), Num(1), Num(2)>>)
CallPlus == Lst(<<Sym(<<"+">>), Num(1), Num(2)>>)
\* (def! x (def! y 1)): a def! in the operand of a def! of the same scope
DefInDef == Lst(<<Sym(N_def), Sym(n_x), DefY(1)>>)
\* (let* (a 1) (do (def! f (fn* () (def! a 2))) (f) a)): a closure whose body
\* rebinds a name of the scope it captured
LetWritesCaptured ==
    Lst(<<Sym(N_let), Lst(<<Sym(n_a), Num(1)>>),
          Lst(<<Sym(N_do),
                Lst(<<Sym(N_def), Sym(n_f),
                      Lst(<<Sym(N_fn), Lst(<<>>),
                            Lst(<<Sym(N_def), Sym(n_a), Num(2)>>)>>)>>),
                CallF, Sym(n_a)>>)>>)
\* (def! x (f)) with f bound by (def! f (fn* () (def! x 9))): the body of f
\* writes the root scope's x while the def! of x is being evaluated
DefXCallsF == Lst(<<Sym(N_def), Sym(n_x), CallF>>)

BorrowForms ==
    {AliasPlus, RebindPlus, CallP, CallPlus, DefInDef, LetWritesCaptured, LetShare,
     DefFDef, DefXCallsF, CallF, DefX(1)}

NextBorrow == \E ast \in BorrowForms : EvalForm(ast)

SpecBorrow == Init /\ [][NextBorrow]_vars

\* C29: a scope is mutably borrowed only while no other borrow of it is
\* alive and no borrow is alive when eval is called; so no evaluation aborts
\* with a borrow conflict, a closure that writes the scope it captured
\* included.
C29_NoBorrowConflict ==
    TopLevel =>
       /\ last.val # ErrV(BorrowMutError, MalNil)
       /\ \A i \in 1..Len(last.log) :
             /\ last.log[i].k = "eval" =>
                   \A e \in 1..(Len(last.pre) + Len(last.log)) :
                      ~Borrowed(SubSeq(last.log, 1, i - 1), e)
             /\ last.log[i].k = "set" =>
                   ~Borrowed(SubSeq(last.log, 1, i - 1), last.log[i].env)
       /\ last.ast = LetWritesCaptured => last.status = "ok" /\ last.val = Num(1)
       /\ last.ast = LetShare => last.status = "ok" /\ last.val = Num(2)
       /\ last.ast = DefInDef =>
             /\ last.status = "ok"
             /\ EnvGet(store, Root, n_x) = Num(1)
             /\ EnvGet(store, Root, n_y) = Num(1)
       /\ (last.ast = CallP /\ EnvGet(last.pre, Root, n_p) = Sym(<<"+">>)) =>
             last.status = "ok" /\ last.val = Num(3)

\* (def! x (f)) has succeeded with f the closure over the root scope whose
\* body binds x: the root scope was written by the body and then by the
\* def! that called it.
C29_Witness ==
    /\ last.op = "eval"
    /\ last.ast = DefXCallsF
    /\ last.status = "ok"
    /\ Cardinality({i \in 1..Len(last.log) :
                       last.log[i].k = "set" /\ last.log[i].name = n_x}) = 2
    /\ EnvGet(store, Root, n_x) = Num(9)

====
